---- MODULE Spec2Model ----
(***************************************************************************)
(* A model of the JustAddDocuments front end: the FileUpload component     *)
(* (src/src/components/FileUpload.tsx, the component defined from line     *)
(* 1953 on) and the code normalizer of src/src/services/claude.ts.         *)
(*                                                                         *)
(* Source text is modelled as a sequence of lexical tokens: a token is a   *)
(* keyword, an identifier or a punctuation mark, and white space between   *)
(* tokens is not represented.  A learning tab is a JavaScript object: a    *)
(* function from its keys to their values, where a key may be missing.     *)
(* The persisted entry is the JSON text of the tab list, represented by    *)
(* the value it parses to.                                                 *)
(***************************************************************************)
EXTENDS Integers, Sequences, FiniteSets, TLC

VARIABLES
  learningTabs,                   \* useState<LearningTab[]>
  activeTab,                      \* useState<string | null>
  view,                           \* useState<'upload' | 'content' | ...>
  file,                           \* useState<File | null>
  cachedFile,                     \* useState<File | null>
  error,                          \* useState<string>
  loading,                        \* useState<boolean>
  regeneratingVisualizations,     \* useState<Record<string, boolean>>
  manuallyUpdatedVisualizations,  \* useRef(new Set<string>())
  localStorage,                   \* the 'learningTabs' entry of window.localStorage
  html,                           \* the __html last committed to .learning-content-text
  mounts,                         \* the vis-container-<id> nodes of the document
  upload,                         \* the analysis in flight (handleBeginLearning's timer)
  jobs,                           \* the regenerations in flight
  clock,                          \* Date.now()
  last,                           \* what the most recent step did (observation only)
  origin,                         \* tab id -> the file the tab was created from (observation only)
  notices,                        \* storage-limit notices shown since the page was opened
  nzSrc,                          \* normalizer check: the input text
  nzOut,                          \* normalizer check: the successive outputs
  fmtIn,                          \* protocol check: the arguments of formatResponse
  fmtOut,                         \* protocol check: its results
  realms                          \* pipeline check: container id -> its frame

appVars == <<learningTabs, activeTab, view, file, cachedFile, error, loading,
             regeneratingVisualizations, manuallyUpdatedVisualizations,
             localStorage, html, mounts, upload, jobs, clock, last, origin, notices>>
nzVars == <<nzSrc, nzOut>>
fmtVars == <<fmtIn, fmtOut>>
rnVars == <<realms>>
pureVars == <<nzVars, fmtVars, rnVars>>
vars == <<appVars, pureVars>>

Undefined == "undefined"

(***************************************************************************)
(* Bounds of the model.                                                    *)
(***************************************************************************)
MaxSessions == 2      \* analyses started in one run
MaxJobs == 1          \* regenerations in flight at once
MaxNotices == 2       \* storage-limit notices counted
MaxDecls == 3         \* declarations in a normalizer input
MaxConcurrent == 2    \* regenerations in flight at once, where they run side by side

(***************************************************************************)
(* Code Normalizer: renameComponentToApp.                                  *)
(***************************************************************************)
CapNames == {"App", "Foo", "Bar"}           \* identifiers matching [A-Z][a-zA-Z0-9]*
AppNames == {"App", "app"}                  \* identifiers matching App under the i flag

\* /function\s+App\s*\(/i at position i
TestFunctionAt(code, i) ==
  /\ i + 2 <= Len(code)
  /\ code[i] = "function" /\ code[i + 1] \in AppNames /\ code[i + 2] = "("

\* The index of the first ")" at or after j, with no ")" before it; 0 when none.
RECURSIVE CloseParen(_, _)
CloseParen(code, j) ==
  IF j > Len(code) THEN 0
  ELSE IF code[j] = ")" THEN j
  ELSE CloseParen(code, j + 1)

\* Length of the match of  const\s+<name>\s*=\s*(\([^)]*\)|)\s*=>  at position i
\* for a name of the set names; 0 when there is no match.
ArrowLen(code, i, names) ==
  IF ~(/\ i + 3 <= Len(code)
       /\ code[i] = "const" /\ code[i + 1] \in names /\ code[i + 2] = "=")
  THEN 0
  ELSE IF code[i + 3] = "=>" THEN 4
  ELSE IF code[i + 3] = "("
       THEN LET j == CloseParen(code, i + 4)
            IN IF j # 0 /\ j + 1 <= Len(code) /\ code[j + 1] = "=>"
               THEN j + 2 - i ELSE 0
  ELSE 0

\* /class\s+<name>\s+extends\s+React\.Component/ at position i
ClassAt(code, i, names) ==
  /\ i + 3 <= Len(code)
  /\ code[i] = "class" /\ code[i + 1] \in names
  /\ code[i + 2] = "extends" /\ code[i + 3] = "React.Component"

\* The test of line 195: some declaration already uses the entry name.
HasApp(code) ==
  \E i \in 1..Len(code) :
    \/ TestFunctionAt(code, i)
    \/ ArrowLen(code, i, AppNames) # 0
    \/ ClassAt(code, i, AppNames)

\* Case 1, lines 205-213: replace(/function\s+([A-Z][a-zA-Z0-9]*)\s*\(/g, ...).
\* Returns the pair <<new text, functionMatched>>.
RECURSIVE RenameFunctions(_, _)
RenameFunctions(code, i) ==
  IF i > Len(code) THEN <<<< >>, FALSE>>
  ELSE IF /\ i + 2 <= Len(code)
          /\ code[i] = "function" /\ code[i + 1] \in CapNames /\ code[i + 2] = "("
       THEN LET rest == RenameFunctions(code, i + 3)
            IN IF code[i + 1] = "App"
               THEN <<SubSeq(code, i, i + 2) \o rest[1], rest[2]>>
               ELSE <<(<<"function", "App", "(">>) \o rest[1], TRUE>>
       ELSE LET rest == RenameFunctions(code, i + 1)
            IN <<(<<code[i]>>) \o rest[1], rest[2]>>

\* Case 2, lines 218-225: replace(/const\s+([A-Z]...)\s*=\s*(\([^)]*\)|)\s*=>/g, ...).
RECURSIVE RenameArrows(_, _)
RenameArrows(code, i) ==
  IF i > Len(code) THEN << >>
  ELSE LET n == ArrowLen(code, i, CapNames)
       IN IF n = 0 THEN (<<code[i]>>) \o RenameArrows(code, i + 1)
          ELSE IF code[i + 1] = "App"
               THEN SubSeq(code, i, i + n - 1) \o RenameArrows(code, i + n)
               ELSE (<<"const", "App", "=">>) \o SubSeq(code, i + 3, i + n - 2)
                      \o (<<"=>">>) \o RenameArrows(code, i + n)

\* Case 3, lines 229-236: replace(/class\s+([A-Z]...)\s+extends\s+React\.Component/g, ...).
RECURSIVE RenameClasses(_, _)
RenameClasses(code, i) ==
  IF i > Len(code) THEN << >>
  ELSE IF ClassAt(code, i, CapNames)
       THEN (IF code[i + 1] = "App"
             THEN SubSeq(code, i, i + 3)
             ELSE <<"class", "App", "extends", "React.Component">>)
              \o RenameClasses(code, i + 4)
       ELSE (<<code[i]>>) \o RenameClasses(code, i + 1)

\* Lines 202-238: the three replacements, the second only when the first renamed nothing.
RenameCases(code) ==
  LET f == RenameFunctions(code, 1)
      afterArrows == IF f[2] THEN f[1] ELSE RenameArrows(f[1], 1)
  IN RenameClasses(afterArrows, 1)

\* renameComponentToApp without the test of line 195.
RenameIgnoringExisting(code) == RenameCases(code)

renameComponentToApp(code) ==
  IF HasApp(code) THEN code ELSE RenameCases(code)

(***************************************************************************)
(* Inputs of the normalizer check: up to MaxDecls declarations, each one   *)
(* of a few declaration styles and a few names.                            *)
(***************************************************************************)
DeclNames == {"App", "app", "Foo", "Bar"}

DeclsOf(n) ==
  { <<"function", n, "(", ")">>,
    <<"const", n, "=", "(", "props", ")", "=>">>,
    <<"const", n, "=", "props", "=>">>,
    <<"const", n, "=", "function", "(", ")">>,
    <<"class", n, "extends", "React.Component">> }

Decls == UNION { DeclsOf(n) : n \in DeclNames }

RECURSIVE Texts(_)
Texts(k) ==
  IF k = 0 THEN { << >> }
  ELSE LET shorter == Texts(k - 1)
       IN shorter \cup { d \o t : d \in Decls, t \in shorter }

NormalizerInputs == Texts(MaxDecls)

(***************************************************************************)
(* JavaScript values.                                                      *)
(***************************************************************************)
NoTab == 0                                  \* activeTab === null
NoFile == [name |-> "", size |-> 0, data |-> ""]   \* file === null
Empty == << >>                              \* a container without children; ''

\* obj[k], undefined when the object has no such key
Get(obj, k) == IF k \in DOMAIN obj THEN obj[k] ELSE Undefined

\* !!v for a string-valued v
Truthy(v) == v \notin {Undefined, ""}

\* { ...obj, [k]: v }
With(obj, k, v) == [x \in DOMAIN obj \cup {k} |-> IF x = k THEN v ELSE obj[x]]

\* array.map(f)
Map(f(_), seq) == [i \in 1..Len(seq) |-> f(seq[i])]

\* array.filter(p)
RECURSIVE Filter(_, _)
Filter(p(_), seq) ==
  IF seq = << >> THEN << >>
  ELSE (IF p(Head(seq)) THEN <<Head(seq)>> ELSE << >>) \o Filter(p, Tail(seq))

\* array.find(t => t.id === id): a sequence holding the first match, or none
Find(seq, id) ==
  LET hits == { i \in 1..Len(seq) : seq[i].id = id }
  IN IF hits = {} THEN << >>
     ELSE <<seq[CHOOSE i \in hits : \A j \in hits : i <= j]>>

(***************************************************************************)
(* JSON.stringify and JSON.parse of the tab list.  A key whose value is    *)
(* undefined is not written; the text is represented by the value it       *)
(* parses to.                                                              *)
(***************************************************************************)
StringifyVis(v) == [k \in { x \in DOMAIN v : v[x] # Undefined } |-> v[k]]

StringifyTab(tab) ==
  [k \in { x \in DOMAIN tab : x # "fileData" \/ tab[x] # Undefined } |->
     IF k = "visualizations" THEN Map(StringifyVis, tab[k]) ELSE tab[k]]

JSONstringify(data) == [parses |-> TRUE, value |-> Map(StringifyTab, data)]

NoEntry == << >>                            \* getItem returns null

(***************************************************************************)
(* The environment: the files a user selects, what the remote analysis     *)
(* and generation calls answer, and what the browser's storage holds when  *)
(* the page is first opened.  File sizes are in megabytes.                 *)
(***************************************************************************)
MaxSizeMB == 32                             \* maxSize = 32
CacheLimitMB == 5                           \* file.size < 5 * 1024 * 1024

Files ==
  { [name |-> "small.pdf", size |-> 4, data |-> "bytes-small"],
    [name |-> "limit.pdf", size |-> 5, data |-> "bytes-limit"] }

OversizedFile == [name |-> "huge.pdf", size |-> 33, data |-> "bytes-huge"]

ArtIds == {"a", "b"}

RawFunction == <<"function", "Foo", "(", ")">>
RawArrow == <<"const", "Bar", "=", "(", ")", "=>">>
RawClass == <<"class", "Foo", "extends", "React.Component">>

\* generateVisualizations' answers to a regeneration
GeneratedRaw == { RawClass }

MarkerA == [id |-> "a", description |-> "Sales Chart"]
MarkerB == [id |-> "b", description |-> "Quiz"]

\* An analysis answer, as extractPaperAndVisualizations reads it: the markers of
\* the prose and the visualization blocks (id, description, raw code).
ResponseFull ==
  [markers |-> <<MarkerA, MarkerB>>,
   blocks |-> << [id |-> "a", description |-> "Sales chart", code |-> RawFunction],
                 [id |-> "b", description |-> "Quiz", code |-> RawArrow] >>]

\* The block of marker a is missing.
ResponseMissing ==
  [markers |-> <<MarkerA, MarkerB>>,
   blocks |-> << [id |-> "b", description |-> "Quiz", code |-> RawArrow] >>]

\* One marker and its block.
ResponseSingle ==
  [markers |-> <<MarkerA>>,
   blocks |-> << [id |-> "a", description |-> "Sales chart", code |-> RawFunction] >>]

\* Two blocks carry the same id.
ResponseTwice ==
  [markers |-> <<MarkerA>>,
   blocks |-> << [id |-> "a", description |-> "Sales chart", code |-> RawFunction],
                 [id |-> "a", description |-> "Sales chart", code |-> RawArrow] >>]

\* Lines 246-281: every block becomes a visualization with its code normalized;
\* the prose is the text before the first block.
extractPaperAndVisualizations(resp) ==
  [paperContent |-> resp.markers,
   visualizations |->
     Map(LAMBDA b : [id |-> b.id, description |-> b.description,
                     code |-> renameComponentToApp(b.code)], resp.blocks)]

\* A list written by an earlier visit whose artifact carries no status.
LegacyTabs ==
  << [id |-> 1, title |-> "old.pdf", content |-> <<MarkerA>>,
      visualizations |-> << [id |-> "a", description |-> "Sales Chart",
                             code |-> renameComponentToApp(RawFunction)] >>,
      fileData |-> "bytes-old"] >>

\* A list whose tab was written without the bytes of its document (a document
\* of 5 MB or more, or the second attempt of saveToLocalStorage).
LegacyTabsNoData ==
  << [id |-> 1, title |-> "old.pdf", content |-> <<MarkerA>>,
      visualizations |-> << [id |-> "a", description |-> "Sales Chart",
                             code |-> renameComponentToApp(RawFunction),
                             status |-> "ready"] >>] >>

\* An entry that parses and whose tab has no visualizations.
ForeignTabs == << [id |-> 1, title |-> "old.pdf", content |-> <<MarkerA>>] >>

InitialStorages ==
  { NoEntry,
    <<[parses |-> TRUE, value |-> LegacyTabs]>>,
    <<[parses |-> TRUE, value |-> ForeignTabs]>>,
    <<[parses |-> FALSE, value |-> << >>]>> }

(***************************************************************************)
(* Placeholder Protocol: formatResponse, lines 2516-2640.  The prose is    *)
(* its sequence of markers; the result is the sequence of the fragments    *)
(* that replace them.                                                      *)
(***************************************************************************)
\* Inputs of the protocol check: markers whose ids and descriptions use what
\* the marker syntax allows (underscores, emphasis marks, important terms),
\* and artifacts with every status, one of them with no marker.
ProtocolMarkers ==
  { [id |-> "a", description |-> "Sales Chart"],
    [id |-> "a", description |-> "Quiz"],
    [id |-> "x_y_z", description |-> "Quiz"],
    [id |-> "note", description |-> "Quiz"],
    [id |-> "b", description |-> "Key *terms*"] }

ProtocolTexts ==
  { <<m>> : m \in ProtocolMarkers } \cup { <<m, n>> : m, n \in ProtocolMarkers }

\* Code with a JSX style object, and code whose text holds an important term.
RawStyled ==
  <<"function", "App", "(", ")", "<", "div", "style", "=",
    "{{", "color", ":", "'red'", "}}", "/>">>
RawWithTerm == <<"function", "App", "(", ")", "<p>", "Note", "</p>">>

ProtocolArtifacts ==
  { [id |-> i, description |-> "Quiz", code |-> renameComponentToApp(RawFunction),
     status |-> "ready"] : i \in {"a", "b", "x_y_z", "note", "c"} }
  \cup { [id |-> "a", description |-> "Quiz", code |-> renameComponentToApp(c),
          status |-> "ready"] : c \in {RawStyled, RawWithTerm, RawArrow} }
  \cup { [id |-> "a", description |-> "Quiz", code |-> Empty, status |-> st] :
           st \in {"loading", "error"} }

ProtocolLists ==
  { << >> } \cup { <<v>> : v \in ProtocolArtifacts }
  \cup { <<v, w>> : v \in ProtocolArtifacts, w \in { u \in ProtocolArtifacts : u.id = "c" } }

\* No container is being rendered.
NoRealms == << >>

NoFormat == [text |-> << >>, visualizations |-> << >>, regen |-> FALSE, available |-> FALSE]

fileDataAvailable(tabs, active, f, cf) ==
  LET tab == Find(tabs, active)
  IN \/ f # NoFile
     \/ cf # NoFile
     \/ (tab # << >> /\ Truthy(Get(tab[1], "fileData")))

\* The text of an id or of a description as lexical tokens: words, spaces
\* and the marks "_" and "*" that markdown reads as emphasis.
Lex(s) ==
  CASE s = "x_y_z" -> <<"x", "_", "y", "_", "z">>
    [] s = "Sales Chart" -> <<"Sales", " ", "Chart">>
    [] s = "Sales chart" -> <<"Sales", " ", "chart">>
    [] s = "Key *terms*" -> <<"Key", " ", "*", "terms", "*">>
    [] s = "Important note" -> <<"Important", " ", "note">>
    [] OTHER -> <<s>>

\* {{VISUALIZATION:${id}:${description}}}, lines 2525 and 2539
PlaceholderTag(marker) ==
  <<"{{VISUALIZATION:">> \o Lex(marker.id) \o <<":">> \o Lex(marker.description) \o <<"}}">>

\* The prose as text: every marker on a line of its own.
RECURSIVE ProseText(_)
ProseText(text) ==
  IF text = << >> THEN << >>
  ELSE PlaceholderTag(Head(text)) \o <<"\n">> \o ProseText(Tail(text))

\* The first position at or after j that holds d, on the same line; 0 when none.
RECURSIVE NextOnLine(_, _, _)
NextOnLine(toks, j, d) ==
  IF j > Len(toks) \/ toks[j] = "\n" THEN 0
  ELSE IF toks[j] = d THEN j
  ELSE NextOnLine(toks, j + 1, d)

\* replace(/d(.+?)d/g, '<tag>$1</tag>') for a mark d, lines 1792-1798, from
\* position i0 of the text on.  The text is bound once, so that a text given
\* as the result of an earlier replacement is not computed again where it is
\* read; Scan[i] is the result from position i on.
Emphasize(text, i0, d, open, close) ==
  LET From(toks) ==
        LET Scan[i \in 1..(Len(toks) + 1)] ==
              IF i > Len(toks) THEN << >>
              ELSE LET j == IF toks[i] = d THEN NextOnLine(toks, i + 2, d) ELSE 0
                   IN IF j # 0
                      THEN <<open>> \o SubSeq(toks, i + 1, j - 1) \o <<close>> \o Scan[j + 1]
                      ELSE <<toks[i]>> \o Scan[i + 1]
        IN IF \A k \in i0..Len(toks) : toks[k] # d THEN SubSeq(toks, i0, Len(toks))
           ELSE Scan[i0]
  IN CHOOSE result \in { From(toks) : toks \in {text} } : TRUE

\* markdownToHtml, lines 1764-1818: the inline conversions (bold, then
\* italic).  The block conversions (headers, lists, paragraphs, <br>) wrap
\* whole lines and leave the text of a line as it is; they are left out.
markdownToHtml(markdown) ==
  LET bold1 == Emphasize(markdown, 1, "**", "<strong>", "</strong>")
      bold2 == Emphasize(bold1, 1, "__", "<strong>", "</strong>")
      italic1 == Emphasize(bold2, 1, "*", "<em>", "</em>")
  IN Emphasize(italic1, 1, "_", "<em>", "</em>")

\* String.prototype.replace(pattern, replacement) with a string pattern:
\* the first occurrence only, line 2620.
ReplaceFirst(text, pat, rep) ==
  LET In(toks) ==
        LET found == { i \in 1..(Len(toks) - Len(pat) + 1) :
                         /\ toks[i] = pat[1]
                         /\ SubSeq(toks, i, i + Len(pat) - 1) = pat }
        IN IF found = {} THEN toks
           ELSE LET i == CHOOSE k \in found : \A m \in found : k <= m
                IN SubSeq(toks, 1, i - 1) \o rep \o SubSeq(toks, i + Len(pat), Len(toks))
  IN CHOOSE result \in { In(toks) : toks \in {text} } : TRUE

\* The position of the first "}}" at or after j with no "}" before it; 0
\* when there is none.
RECURSIVE NextClose(_, _)
NextClose(toks, j) ==
  IF j > Len(toks) \/ toks[j] = "}" THEN 0
  ELSE IF toks[j] = "}}" THEN j
  ELSE NextClose(toks, j + 1)

\* The tokens that begin with two opening braces.
OpenBraces == {"{{VISUALIZATION:", "{{"}

\* replace(/{{[^}]+}}/g, ''), line 2624, from position i0 of the text on:
\* two opening braces, at least one token without a closing brace, two
\* closing braces.
StripBraces(text, i0) ==
  LET From(toks) ==
        LET Scan[i \in 1..(Len(toks) + 1)] ==
              IF i > Len(toks) THEN << >>
              ELSE LET j == IF toks[i] \in OpenBraces THEN NextClose(toks, i + 2) ELSE 0
                   IN IF j # 0 THEN Scan[j + 1]
                      ELSE <<toks[i]>> \o Scan[i + 1]
        IN IF \A k \in i0..Len(toks) : toks[k] \notin OpenBraces
           THEN SubSeq(toks, i0, Len(toks))
           ELSE Scan[i0]
  IN CHOOSE result \in { From(toks) : toks \in {text} } : TRUE

\* The terms of line 2630, matched as whole words without regard to case.
Lower(tok) ==
  CASE tok \in {"Note", "NOTE"} -> "note"
    [] tok = "Important" -> "important"
    [] tok = "Key" -> "key"
    [] tok = "Remember" -> "remember"
    [] tok = "Definition" -> "definition"
    [] OTHER -> tok

importantTerms == {"note", "important", "remember", "definition"}

\* Some important term occurs in the tokens (the fifth term, 'key concept',
\* is two words).
HasTerm(toks) ==
  \E i \in 1..Len(toks) :
    \/ Lower(toks[i]) \in importantTerms
    \/ /\ i + 2 <= Len(toks)
       /\ Lower(toks[i]) = "key" /\ toks[i + 1] = " " /\ Lower(toks[i + 2]) = "concept"

\* Whether the highlighting of lines 2629-2633 rewrites the string s.
Highlighted(s) == HasTerm(Lex(s))

\* Lines 2593-2598: the five replacements of escapedCode, token by token.
EscapeToken(tok) ==
  CASE tok = "<" -> "&lt;"
    [] tok = ">" -> "&gt;"
    [] tok = "=>" -> "=&gt;"
    [] tok = "/>" -> "/&gt;"
    [] tok = "<p>" -> "&lt;p&gt;"
    [] tok = "</p>" -> "&lt;/p&gt;"
    [] tok = "'red'" -> "&#039;red&#039;"
    [] OTHER -> tok

EscapeHtml(code) ==
  CHOOSE result \in { [i \in 1..Len(toks) |-> EscapeToken(toks[i])] : toks \in {code} } : TRUE

\* Lines 2629-2633 on the tokens of an element's text: every important term
\* is wrapped in a span.  The text is bound once; Scan[i] is the result from
\* position i on.
WrapTerms(text) ==
  LET In(toks) ==
        LET Scan[i \in 1..(Len(toks) + 1)] ==
              IF i > Len(toks) THEN << >>
              ELSE (IF Lower(toks[i]) \in importantTerms
                    THEN <<"<span class=\"highlight-text\">", toks[i], "</span>">>
                    ELSE <<toks[i]>>) \o Scan[i + 1]
        IN IF HasTerm(toks) THEN Scan[1] ELSE toks
  IN CHOOSE result \in { In(toks) : toks \in {text} } : TRUE

\* The content of the <pre> of the raw-source panel (line 2615) as it stands
\* in the result: escapedCode after the removal of line 2624 and the
\* highlighting of lines 2629-2633, which run over the whole text, the
\* inserted fragments included.
PanelOf(code) == WrapTerms(StripBraces(EscapeHtml(code), 1))

\* regeneratingVisualizations[id], undefined for an id never set
RegenOn(regen, id) == id \in DOMAIN regen /\ regen[id]

\* The fragment that replaces the marker, lines 2537-2618, as it stands in
\* the result after the highlighting of lines 2629-2633, which rewrites the
\* important terms in attribute values too: container is the id the
\* vis-container element ends up with (its attribute is cut at the first
\* quote of the inserted span), fires tells whether the onclick attribute is
\* still the dispatch of the event, detail is the description the event
\* carries, panel is the content of the raw-source panel.
Fragment(marker, visualizations, regen, available) ==
  LET vis == Find(visualizations, marker.id)
      fires == ~Highlighted(marker.id) /\ ~Highlighted(marker.description)
      button(label) ==
        [disabled |-> RegenOn(regen, marker.id) \/ ~available,
         label |-> IF RegenOn(regen, marker.id) THEN "Regenerating..." ELSE label,
         warning |-> ~available,
         fires |-> fires]
      noButton == [disabled |-> TRUE, label |-> "", warning |-> FALSE, fires |-> FALSE]
  IN IF vis = << >>
     THEN [kind |-> "generate", id |-> marker.id, description |-> marker.description,
           button |-> button("Generate"), code |-> Empty, container |-> "",
           detail |-> marker.description, panel |-> Empty]
     ELSE IF vis[1].status = "loading"
     THEN [kind |-> "loading", id |-> marker.id, description |-> vis[1].description,
           button |-> noButton, code |-> Empty, container |-> "", detail |-> "",
           panel |-> Empty]
     ELSE IF vis[1].status = "error"
     THEN [kind |-> "error", id |-> marker.id, description |-> vis[1].description,
           button |-> button("Try Again"), code |-> Empty, container |-> "",
           detail |-> marker.description, panel |-> Empty]
     ELSE IF vis[1].status = "ready"
     THEN [kind |-> "mount", id |-> marker.id, description |-> marker.description,
           button |-> button("Regenerate"), code |-> vis[1].code,
           container |-> IF Highlighted(marker.id) THEN "<span class=" ELSE marker.id,
           detail |-> marker.description, panel |-> PanelOf(vis[1].code)]
     ELSE [kind |-> "stripped", id |-> marker.id, description |-> "",
           button |-> noButton, code |-> Empty, container |-> "", detail |-> "",
           panel |-> Empty]

\* Text of the result outside the fragments.
TextElement(tok) ==
  [kind |-> "text", id |-> tok, description |-> "",
   button |-> [disabled |-> TRUE, label |-> "", warning |-> FALSE, fires |-> FALSE],
   code |-> Empty, container |-> "", detail |-> "", panel |-> Empty]

\* The k-th replacementHtml, while it stands in the text.
Ref(k) == <<"#1", "#2", "#3", "#4">>[k]

\* The forEach of lines 2536-2621: the tag of each placeholder found in the
\* original text is replaced, where the converted text still holds it.
RECURSIVE ReplacePlaceholders(_, _, _)
ReplacePlaceholders(formattedText, placeholdersInText, k) ==
  IF k > Len(placeholdersInText) THEN formattedText
  ELSE ReplacePlaceholders(
         ReplaceFirst(formattedText, PlaceholderTag(placeholdersInText[k]), <<Ref(k)>>),
         placeholdersInText, k + 1)

\* Lines 2518-2624: the converted text with the tags replaced and what is
\* left in braces removed.  It depends on the prose alone.
Layout(text) ==
  StripBraces(ReplacePlaceholders(markdownToHtml(ProseText(text)), text, 1), 1)

\* formatResponse, lines 2516-2640: the elements of the returned markup.
formatResponse(text, visualizations, regen, available) ==
  LET element(tok) ==
        IF \E k \in 1..Len(text) : tok = Ref(k)
        THEN Fragment(text[CHOOSE k \in 1..Len(text) : tok = Ref(k)],
                      visualizations, regen, available)
        ELSE TextElement(IF Lower(tok) \in importantTerms
                         THEN "<span class=\"highlight-text\">" ELSE tok)
  IN CHOOSE result \in
       { [i \in 1..Len(stripped) |-> element(stripped[i])] :
           stripped \in { Layout(text) } } :
       TRUE

\* The content view of the JSX, lines 3640-3664: rendered when view is
\* 'content' and a tab is active, with the prose of the active tab.
ContentView(tabs, active, v, f, cf, regen) ==
  IF v = "content" /\ active # NoTab
  THEN LET tab == Find(tabs, active)
       IN [shown |-> TRUE,
           frags |-> formatResponse(IF tab = << >> THEN << >> ELSE tab[1].content,
                                    IF tab = << >> THEN << >> ELSE tab[1].visualizations,
                                    regen,
                                    fileDataAvailable(tabs, active, f, cf))]
  ELSE [shown |-> FALSE, frags |-> << >>]

\* The ids of the vis-container-<id> elements of a content view.
MountIds(h) ==
  { h.frags[i].container : i \in { j \in 1..Len(h.frags) : h.frags[j].kind = "mount" } }

(***************************************************************************)
(* Artifact Store: saveToLocalStorage, lines 2005-2048.  out is what the   *)
(* browser answers to the first setItem and, after a quota error, to the   *)
(* second.                                                                 *)
(***************************************************************************)
WriteOutcomes ==
  { <<"ok", "-">>, <<"quota", "ok">>, <<"quota", "fail">>, <<"error", "-">> }

\* A retry that removes nothing.
StripNothing(data) == data

\* data.map(tab => ({ ...tab, fileData: undefined }))
StripFileData(data) == Map(LAMBDA tab : With(tab, "fileData", Undefined), data)

saveToLocalStorage(data, out, store) ==
  LET first == JSONstringify(data)
      second == JSONstringify(StripFileData(data))
  IN IF out[1] = "ok"
     THEN [store |-> <<first>>, notice |-> FALSE, returns |-> TRUE,
           writes |-> << [text |-> first, result |-> "ok"] >>]
     ELSE IF out[1] = "quota"
     THEN IF out[2] = "ok"
          THEN [store |-> <<second>>, notice |-> TRUE, returns |-> TRUE,
                writes |-> << [text |-> first, result |-> "quota"],
                              [text |-> second, result |-> "ok"] >>]
          ELSE [store |-> store, notice |-> FALSE, returns |-> FALSE,
                writes |-> << [text |-> first, result |-> "quota"],
                              [text |-> second, result |-> "fail"] >>]
     ELSE [store |-> store, notice |-> FALSE, returns |-> FALSE,
           writes |-> << [text |-> first, result |-> "error"] >>]

\* A save effect that leaves the entry alone when the list is empty.
SaveEffectKeepsEntry(tabs, out, store) ==
  IF Len(tabs) > 0
  THEN saveToLocalStorage(tabs, out, store)
  ELSE [store |-> store, notice |-> FALSE, returns |-> TRUE, writes |-> << >>]

\* The save effect, lines 2051-2059.
SaveEffect(tabs, out, store) ==
  IF Len(tabs) > 0
  THEN saveToLocalStorage(tabs, out, store)
  ELSE [store |-> NoEntry, notice |-> FALSE, returns |-> TRUE, writes |-> << >>]

\* A restoration that takes an artifact without status for one in progress.
RestoreVisAsLoading(vis) ==
  With(vis, "status", IF Truthy(Get(vis, "status")) THEN vis.status ELSE "loading")

\* The restoration of the load effect, lines 1981-1987.
RestoreVis(vis) ==
  With(vis, "status", IF Truthy(Get(vis, "status")) THEN vis.status ELSE "ready")

RestoreTab(tab) == With(tab, "visualizations", Map(RestoreVis, tab.visualizations))

(***************************************************************************)
(* The content-view render effect, lines 2655-2946: every ready artifact   *)
(* of the active tab whose container exists and is not in the manually     *)
(* updated set has its container cleared and a new realm created in it.    *)
(***************************************************************************)
PassRenders(v, mts, manual) ==
  /\ v.status = "ready" /\ v.code # Empty
  /\ v.id \in DOMAIN mts
  /\ v.id \notin manual

RECURSIVE RenderPass(_, _, _)
RenderPass(visualizations, mts, manual) ==
  IF visualizations = << >> THEN mts
  ELSE LET v == Head(visualizations)
       IN RenderPass(Tail(visualizations),
                     IF PassRenders(v, mts, manual)
                     THEN [mts EXCEPT ![v.id] = v.code] ELSE mts,
                     manual)

PassTouches(visualizations, mts, manual) ==
  { visualizations[i].id :
      i \in { j \in 1..Len(visualizations) : PassRenders(visualizations[j], mts, manual) } }

\* The cleanup the effect returned at its previous run, lines 2941-2945: it
\* exists when that run saw the content view with an active tab.
CleanupClears(prevView, prevActive) == prevView = "content" /\ prevActive # NoTab

NoMounts == [id \in {} |-> Empty]

(***************************************************************************)
(* One render of the component and its effects, after a handler has set    *)
(* the state to new.  React assigns innerHTML when the __html string       *)
(* differs from the committed one, runs the save effect when learningTabs  *)
(* is a new array, and the render effect when view, activeTab or           *)
(* learningTabs changed (its cleanup first).                               *)
(***************************************************************************)
\* Each intermediate value is bound once, by \E over a singleton, so that its
\* evaluation is shared by the conjuncts that use it.
Commit(new0, tabsChanged, out, manualPre, mountsPre, touchedPre, storePre, act, alerts) ==
  \E new \in {new0} :
  \E newView \in {ContentView(new.tabs, new.active, new.view, new.file, new.cached, new.regen)} :
  \E reset \in {newView.shown /\ (~html.shown \/ newView.frags # html.frags)} :
  \E mounts1 \in {IF ~newView.shown THEN NoMounts
                 ELSE IF reset THEN [id \in MountIds(newView) |-> Empty]
                 ELSE mountsPre} :
  \E touched1 \in {IF ~newView.shown \/ reset
                  THEN touchedPre \cup DOMAIN mountsPre \cup MountIds(newView)
                  ELSE touchedPre} :
  \E depsChanged \in {tabsChanged \/ new.view # view \/ new.active # activeTab} :
  \E manual1 \in {IF depsChanged /\ CleanupClears(view, activeTab) THEN {} ELSE manualPre} :
  \E runs \in {depsChanged /\ new.view = "content" /\ new.active # NoTab} :
  \E tab \in {Find(new.tabs, new.active)} :
  \E vis \in {IF runs /\ tab # << >> THEN tab[1].visualizations ELSE << >>} :
  \E saved \in {IF tabsChanged THEN SaveEffect(new.tabs, out, storePre)
               ELSE [store |-> storePre, notice |-> FALSE, returns |-> TRUE, writes |-> << >>]} :
  \E touches \in {PassTouches(vis, mounts1, manual1)} :
     /\ learningTabs' = new.tabs
     /\ activeTab' = new.active
     /\ view' = new.view
     /\ file' = new.file
     /\ cachedFile' = new.cached
     /\ regeneratingVisualizations' = new.regen
     /\ html' = newView
     /\ mounts' = RenderPass(vis, mounts1, manual1)
     /\ manuallyUpdatedVisualizations' = manual1
     /\ localStorage' = saved.store
     /\ notices' = IF saved.notice THEN notices + 1 ELSE notices
     /\ last' = [act |-> act,
                 touched |-> touched1 \cup touches,
                 rendered |-> touches,
                 passRan |-> runs,
                 saved |-> tabsChanged,
                 writes |-> saved.writes,
                 returned |-> saved.returns,
                 alerts |-> alerts \o (IF saved.notice THEN <<"storage-limit">> ELSE << >>),
                 from |-> NoEntry]

\* Observation: the tabs whose persisted copy a successful retry has written
\* without their bytes.
Stripped(org, tabs, out) ==
  IF Len(tabs) > 0 /\ out = <<"quota", "ok">>
  THEN [id \in DOMAIN org |->
          IF \E i \in 1..Len(tabs) : tabs[i].id = id
          THEN [org[id] EXCEPT !.stripped = TRUE] ELSE org[id]]
  ELSE org

\* The state the handlers start from.
Hooks ==
  [tabs |-> learningTabs, active |-> activeTab, view |-> view, file |-> file,
   cached |-> cachedFile, regen |-> regeneratingVisualizations]

\* The outcomes a save may have: a quota error is counted up to MaxNotices.
Outcomes == { o \in WriteOutcomes : o[1] = "quota" => notices < MaxNotices }

(***************************************************************************)
(* Opening the page: the first render and the load effect, lines           *)
(* 1974-2002.  The save effect of the first render sees the empty list and *)
(* removes the entry; the restored list is saved by the next render.       *)
(***************************************************************************)
NoRegen == [id \in ArtIds |-> FALSE]
NoOrigin == [id \in {} |-> [size |-> 0, data |-> "", stripped |-> FALSE]]

\* The name of a step and, for a step of a regeneration, the tab and the
\* artifact id the regeneration is about.
Step(name) == [name |-> name, tab |-> NoTab, id |-> ""]
JobStep(name, job) == [name |-> name, tab |-> job.tab, id |-> job.id]

Observe(act) ==
  [act |-> act, touched |-> {}, rendered |-> {}, passRan |-> FALSE, saved |-> FALSE,
   writes |-> << >>, returned |-> TRUE, alerts |-> << >>, from |-> NoEntry]

\* A tab the restoration of lines 1981-1987 can map over: tab.visualizations
\* is there.
Restorable(value) == \A i \in 1..Len(value) : "visualizations" \in DOMAIN value[i]

\* A selection of the oldest tab.
ActiveFirst(restored) == restored[1].id

\* Lines 1992-1994: the most recent tab becomes the active one.
ActiveAfterLoad(restored) == restored[Len(restored)].id

LoadState(store, out) ==
  LET parsed == store # NoEntry /\ store[1].parses /\ Restorable(store[1].value)
      restored == IF parsed THEN Map(RestoreTab, store[1].value) ELSE << >>
      some == Len(restored) > 0
      active == IF some THEN ActiveAfterLoad(restored) ELSE NoTab
      v == IF some THEN "content" ELSE "upload"
      cv == ContentView(restored, active, v, NoFile, NoFile, NoRegen)
      m0 == [id \in MountIds(cv) |-> Empty]
      vis == IF some THEN restored[Len(restored)].visualizations ELSE << >>
      saved == SaveEffect(restored, out, NoEntry)
  IN [tabs |-> restored, active |-> active, view |-> v, html |-> cv,
      mounts |-> RenderPass(vis, m0, {}),
      store |-> saved.store,
      notices |-> IF saved.notice THEN 1 ELSE 0,
      last |-> [act |-> Step("Load"),
                touched |-> MountIds(cv),
                rendered |-> PassTouches(vis, m0, {}),
                passRan |-> some,
                saved |-> TRUE,
                writes |-> saved.writes,
                returned |-> saved.returns,
                alerts |-> IF saved.notice THEN <<"storage-limit">> ELSE << >>,
                from |-> store]]

InitApp(stores, outs) ==
  \E store \in stores, out \in outs :
    \E s \in {LoadState(store, out)} :
       /\ (store = NoEntry \/ ~store[1].parses) => out = <<"ok", "-">>
       /\ learningTabs = s.tabs
       /\ activeTab = s.active
       /\ view = s.view
       /\ file = NoFile
       /\ cachedFile = NoFile
       /\ error = ""
       /\ loading = FALSE
       /\ regeneratingVisualizations = NoRegen
       /\ manuallyUpdatedVisualizations = {}
       /\ localStorage = s.store
       /\ html = s.html
       /\ mounts = s.mounts
       /\ upload = NoFile
       /\ jobs = << >>
       /\ clock = Len(s.tabs)
       /\ last = s.last
       /\ origin = NoOrigin
       /\ notices = s.notices

\* The page is closed and opened again: what is in memory and in flight is lost.
Reload(out) ==
  \E s \in {LoadState(localStorage, out)} :
     /\ (s.tabs = << >>) => out = <<"ok", "-">>
     /\ learningTabs' = s.tabs
     /\ activeTab' = s.active
     /\ view' = s.view
     /\ file' = NoFile
     /\ cachedFile' = NoFile
     /\ error' = ""
     /\ loading' = FALSE
     /\ regeneratingVisualizations' = NoRegen
     /\ manuallyUpdatedVisualizations' = {}
     /\ localStorage' = s.store
     /\ html' = s.html
     /\ mounts' = s.mounts
     /\ upload' = NoFile
     /\ jobs' = << >>
     /\ last' = s.last
     /\ notices' = s.notices
     /\ origin' = Stripped(origin, s.tabs, out)
     /\ UNCHANGED <<clock, pureVars>>

(***************************************************************************)
(* Upload: handleFileSelect, validateFile, handleBeginLearning.            *)
(***************************************************************************)
\* Lines 2446-2453 and 2386-2405.
SelectFile(f) ==
  /\ view = "upload"
  /\ error' = IF f.size > MaxSizeMB THEN "File size exceeds limit" ELSE ""
  /\ Commit([Hooks EXCEPT !.file = IF f.size > MaxSizeMB THEN file ELSE f],
            FALSE, <<"ok", "-">>, manuallyUpdatedVisualizations, mounts, {},
            localStorage, Step("SelectFile"), << >>)
  /\ UNCHANGED <<loading, upload, jobs, clock, origin, pureVars>>

\* Lines 2455-2465: the part before the timer.
BeginLearning ==
  /\ view = "upload" /\ file # NoFile /\ error = "" /\ ~loading
  /\ clock < MaxSessions
  /\ loading' = TRUE
  /\ error' = ""
  /\ upload' = file
  /\ clock' = clock + 1
  /\ Commit([Hooks EXCEPT !.cached = file],
            FALSE, <<"ok", "-">>, manuallyUpdatedVisualizations, mounts, {},
            localStorage, Step("BeginLearning"), << >>)
  /\ UNCHANGED <<jobs, origin, pureVars>>

\* A caching rule that keeps the file of exactly the limit too.
fileDataToStoreInclusive(f) == IF f.size <= CacheLimitMB THEN f.data ELSE Undefined

\* The bytes kept on the new tab, lines 2484-2490.
fileDataToStore(f) == IF f.size < CacheLimitMB THEN f.data ELSE Undefined

\* A processing that marks the new artifacts as in progress.
ProcessAsLoading(vis) == With(vis, "status", "loading")

\* Lines 2473-2476: { ...vis, status: 'ready' }
ProcessVisualization(vis) == With(vis, "status", "ready")

\* Lines 2466-2505: the analysis has answered.
AnalysisSuccess(resp, out) ==
  LET extracted == extractPaperAndVisualizations(resp)
      newTab == [id |-> clock,
                 title |-> upload.name,
                 content |-> extracted.paperContent,
                 visualizations |->
                   Map(ProcessVisualization, extracted.visualizations),
                 fileData |-> fileDataToStore(upload)]
  IN /\ upload # NoFile
     /\ loading' = FALSE
     /\ upload' = NoFile
     /\ origin' = Stripped(With(origin, clock, [size |-> upload.size, data |-> upload.data,
                                                  stripped |-> FALSE]),
                           Append(learningTabs, newTab), out)
     /\ Commit([Hooks EXCEPT !.tabs = Append(learningTabs, newTab),
                             !.active = clock,
                             !.view = "content",
                             !.file = NoFile],
               TRUE, out, manuallyUpdatedVisualizations, mounts, {},
               localStorage, Step("AnalysisSuccess"), << >>)
     /\ UNCHANGED <<error, jobs, clock, pureVars>>

\* A failure that is logged and shows nothing.
AnalysisFailSilent ==
  /\ upload # NoFile
  /\ error' = ""
  /\ loading' = FALSE
  /\ upload' = NoFile
  /\ Commit(Hooks, FALSE, <<"ok", "-">>, manuallyUpdatedVisualizations, mounts, {},
            localStorage, Step("AnalysisFail"), << >>)
  /\ UNCHANGED <<jobs, clock, origin, pureVars>>

\* Lines 2506-2511: reading the file or the analysis call failed.
AnalysisFail ==
  /\ upload # NoFile
  /\ error' = "An error occurred while processing the document"
  /\ loading' = FALSE
  /\ upload' = NoFile
  /\ Commit(Hooks, FALSE, <<"ok", "-">>, manuallyUpdatedVisualizations, mounts, {},
            localStorage, Step("AnalysisFail"), << >>)
  /\ UNCHANGED <<jobs, clock, origin, pureVars>>

(***************************************************************************)
(* Navigation and deletion.                                                *)
(***************************************************************************)
TabIds == { learningTabs[i].id : i \in 1..Len(learningTabs) }

\* Lines 2062-2065.
TabClick(tabId) ==
  /\ tabId \in TabIds
  /\ Commit([Hooks EXCEPT !.active = tabId, !.view = "content"],
            FALSE, <<"ok", "-">>, manuallyUpdatedVisualizations, mounts, {},
            localStorage, Step("TabClick"), << >>)
  /\ UNCHANGED <<error, loading, upload, jobs, clock, origin, pureVars>>

\* Lines 2642-2645.
GoToUpload ==
  /\ Commit([Hooks EXCEPT !.active = NoTab, !.view = "upload"],
            FALSE, <<"ok", "-">>, manuallyUpdatedVisualizations, mounts, {},
            localStorage, Step("GoToUpload"), << >>)
  /\ UNCHANGED <<error, loading, upload, jobs, clock, origin, pureVars>>

\* Lines 2068-2084.
DeleteTab(tabId, out) ==
  LET updatedTabs == Filter(LAMBDA tab : tab.id # tabId, learningTabs)
  IN /\ tabId \in TabIds
     /\ (updatedTabs = << >>) => out = <<"ok", "-">>
     /\ Commit([Hooks EXCEPT
                  !.tabs = updatedTabs,
                  !.active = IF activeTab = tabId /\ Len(updatedTabs) > 0
                             THEN updatedTabs[1].id ELSE activeTab,
                  !.view = IF ~(activeTab = tabId /\ Len(updatedTabs) > 0)
                              /\ Len(updatedTabs) = 0
                           THEN "upload" ELSE view],
               TRUE, out, manuallyUpdatedVisualizations, mounts, {},
               localStorage, Step("DeleteTab"), << >>)
     /\ origin' = Stripped(origin, updatedTabs, out)
     /\ UNCHANGED <<error, loading, upload, jobs, clock, pureVars>>

\* Lines 3347-3359, the user confirming.
ClearAllTabs ==
  /\ Len(learningTabs) > 0
  /\ Commit([Hooks EXCEPT !.tabs = << >>, !.active = NoTab, !.view = "upload"],
            TRUE, <<"ok", "-">>, manuallyUpdatedVisualizations, mounts, {},
            NoEntry, Step("ClearAllTabs"), << >>)
  /\ UNCHANGED <<error, loading, upload, jobs, clock, origin, pureVars>>

(***************************************************************************)
(* Regeneration Workflow: handleRegenerateVisualization, lines 2951-3025,  *)
(* entered through the 'regenerate-visualization' event that the enabled   *)
(* button of a fragment dispatches (lines 3331-3344).  A job is one call   *)
(* of the handler: tab is the activeTab its closure holds.                 *)
(***************************************************************************)
RemoveAt(seq, j) == SubSeq(seq, 1, j - 1) \o SubSeq(seq, j + 1, Len(seq))

Clickable(frag) ==
  /\ frag.kind \in {"generate", "error", "mount"}
  /\ ~frag.button.disabled /\ frag.button.fires

NewJob(frag, data, pc) ==
  [tab |-> activeTab, id |-> frag.id, description |-> frag.detail,
   data |-> data, pc |-> pc, code |-> Empty]

\* A resolution that looks at the bytes stored on the tab first.
SourceBytesStoredFirst(f, cf, tab) ==
  IF Truthy(Get(tab, "fileData")) THEN tab.fileData
  ELSE IF f # NoFile THEN f.data
  ELSE IF cf # NoFile THEN cf.data
  ELSE ""

\* Lines 2958-2970: base64Data, "" standing for null.
SourceBytes(f, cf, tab) ==
  IF f # NoFile THEN f.data
  ELSE IF cf # NoFile THEN cf.data
  ELSE IF Truthy(Get(tab, "fileData")) THEN tab.fileData
  ELSE ""

\* Lines 2951-2967: the source is a file in memory, read asynchronously.
\* limit bounds the regenerations in flight.
RegenClickFileWithin(i, limit) ==
  /\ html.shown /\ i \in 1..Len(html.frags) /\ Clickable(html.frags[i])
  /\ Len(jobs) < limit
  /\ activeTab # NoTab /\ Find(learningTabs, activeTab) # << >>
  /\ file # NoFile \/ cachedFile # NoFile
  /\ jobs' = Append(jobs, NewJob(html.frags[i],
                                 SourceBytes(file, cachedFile,
                                             Find(learningTabs, activeTab)[1]),
                                 "reading"))
  /\ last' = Observe(JobStep("RegenClick", NewJob(html.frags[i], "", "reading")))
  /\ UNCHANGED <<learningTabs, activeTab, view, file, cachedFile, error, loading,
                 regeneratingVisualizations, manuallyUpdatedVisualizations,
                 localStorage, html, mounts, upload, clock, origin, notices, pureVars>>

RegenClickFile(i) == RegenClickFileWithin(i, MaxJobs)

\* Lines 2968-2979: the source is the bytes stored on the tab.
RegenClickStoredWithin(i, limit) ==
  /\ html.shown /\ i \in 1..Len(html.frags) /\ Clickable(html.frags[i])
  /\ Len(jobs) < limit
  /\ activeTab # NoTab /\ Find(learningTabs, activeTab) # << >>
  /\ file = NoFile /\ cachedFile = NoFile
  /\ Truthy(Get(Find(learningTabs, activeTab)[1], "fileData"))
  /\ jobs' = Append(jobs, NewJob(html.frags[i],
                                 SourceBytes(file, cachedFile,
                                             Find(learningTabs, activeTab)[1]),
                                 "calling"))
  /\ Commit([Hooks EXCEPT !.regen = [regeneratingVisualizations EXCEPT
                                       ![html.frags[i].id] = TRUE]],
            FALSE, <<"ok", "-">>, manuallyUpdatedVisualizations, mounts, {},
            localStorage, JobStep("RegenClick", NewJob(html.frags[i], "", "calling")), << >>)
  /\ UNCHANGED <<error, loading, upload, clock, origin, pureVars>>

RegenClickStored(i) == RegenClickStoredWithin(i, MaxJobs)

\* Lines 2951-2976: the event reaches the listener while no source is
\* available.  The buttons of the fragments are disabled in such a state
\* (lines 2556, 2581, 2608); the listener is registered on window (line 3338)
\* and takes the event from whoever dispatches it.
RegenNoSource(id) ==
  /\ activeTab # NoTab /\ Find(learningTabs, activeTab) # << >>
  /\ SourceBytes(file, cachedFile, Find(learningTabs, activeTab)[1]) = ""
  /\ last' = [Observe([name |-> "RegenNoSource", tab |-> activeTab, id |-> id])
               EXCEPT !.alerts = <<"no-document-data">>]
  /\ UNCHANGED <<learningTabs, activeTab, view, file, cachedFile, error, loading,
                 regeneratingVisualizations, manuallyUpdatedVisualizations,
                 localStorage, html, mounts, upload, jobs, clock, origin, notices,
                 pureVars>>

\* Line 2979, after convertToBase64 has resolved.
RegenRead(j) ==
  /\ j \in 1..Len(jobs) /\ jobs[j].pc = "reading"
  /\ jobs' = [jobs EXCEPT ![j].pc = "calling"]
  /\ Commit([Hooks EXCEPT !.regen = [regeneratingVisualizations EXCEPT
                                       ![jobs[j].id] = TRUE]],
            FALSE, <<"ok", "-">>, manuallyUpdatedVisualizations, mounts, {},
            localStorage, JobStep("RegenRead", jobs[j]), << >>)
  /\ UNCHANGED <<error, loading, upload, clock, origin, pureVars>>

\* Lines 2983-2998 and 3022-3024: the generation call has answered; the
\* container of the id, when the document has one, is rendered directly
\* (renderVisualizationInContainer, lines 3028-3035), the reconciliation is
\* scheduled and the flag is reset.
RegenSuccess(j, raw) ==
  LET job == jobs[j]
      code == renameComponentToApp(raw)
      found == job.id \in DOMAIN mounts
  IN /\ j \in 1..Len(jobs) /\ job.pc = "calling"
     /\ jobs' = [jobs EXCEPT ![j].pc = "scheduled", ![j].code = code]
     /\ Commit([Hooks EXCEPT !.regen = [regeneratingVisualizations EXCEPT ![job.id] = FALSE]],
               FALSE, <<"ok", "-">>,
               IF found THEN manuallyUpdatedVisualizations \cup {job.id}
               ELSE manuallyUpdatedVisualizations,
               IF found THEN [mounts EXCEPT ![job.id] = code] ELSE mounts,
               IF found THEN {job.id} ELSE {},
               localStorage, JobStep("RegenSuccess", job), << >>)
     /\ UNCHANGED <<error, loading, upload, clock, origin, pureVars>>

\* Lines 3019-3024: the generation call has failed.
RegenFail(j) ==
  /\ j \in 1..Len(jobs) /\ jobs[j].pc = "calling"
  /\ jobs' = RemoveAt(jobs, j)
  /\ Commit([Hooks EXCEPT !.regen = [regeneratingVisualizations EXCEPT ![jobs[j].id] = FALSE]],
            FALSE, <<"ok", "-">>, manuallyUpdatedVisualizations, mounts, {},
            localStorage, JobStep("RegenFail", jobs[j]), <<"regeneration-error">>)
  /\ UNCHANGED <<error, loading, upload, clock, origin, pureVars>>

\* An update that marks the artifact ready and keeps its code.
ReconcileKeepsCode(prevTabs, job) ==
  Map(LAMBDA tab :
        IF tab.id = job.tab
        THEN With(tab, "visualizations",
                  Map(LAMBDA v : IF v.id = job.id THEN With(v, "status", "ready") ELSE v,
                      tab.visualizations))
        ELSE tab,
      prevTabs)

\* An update that puts the tab of the regeneration back when the list has
\* lost it.
ReconcileRestoresTab(prevTabs, job) ==
  LET updatedVisualization ==
        [id |-> job.id, description |-> job.description,
         code |-> job.code, status |-> "ready"]
  IN IF Find(prevTabs, job.tab) = << >>
     THEN Append(prevTabs, [id |-> job.tab, title |-> "", content |-> << >>,
                            visualizations |-> <<updatedVisualization>>])
     ELSE Map(LAMBDA tab :
                IF tab.id = job.tab
                THEN With(tab, "visualizations",
                          Map(LAMBDA v : IF v.id = job.id THEN updatedVisualization ELSE v,
                              tab.visualizations))
                ELSE tab,
              prevTabs)

\* An update that writes the tab's artifact list anew from the one result.
ReconcileDropsSiblings(prevTabs, job) ==
  Map(LAMBDA tab :
        IF tab.id = job.tab
        THEN With(tab, "visualizations",
                  << [id |-> job.id, description |-> job.description,
                      code |-> job.code, status |-> "ready"] >>)
        ELSE tab,
      prevTabs)

\* An update that leaves out the test of the tab id.
ReconcileEveryTab(prevTabs, job) ==
  LET updatedVisualization ==
        [id |-> job.id, description |-> job.description,
         code |-> job.code, status |-> "ready"]
  IN Map(LAMBDA tab :
           With(tab, "visualizations",
                Map(LAMBDA v : IF v.id = job.id THEN updatedVisualization ELSE v,
                    tab.visualizations)),
         prevTabs)

\* The update of lines 3005-3017 applied to the tab list prevTabs.
ReconcileTabs(prevTabs, job) ==
  LET updatedVisualization ==
        [id |-> job.id, description |-> job.description,
         code |-> job.code, status |-> "ready"]
  IN Map(LAMBDA tab :
           IF tab.id = job.tab
           THEN With(tab, "visualizations",
                     Map(LAMBDA v : IF v.id = job.id THEN updatedVisualization ELSE v,
                         tab.visualizations))
           ELSE tab,
         prevTabs)

\* Lines 3002-3018: the animation frame fires.
Reconcile(j, out) ==
  /\ j \in 1..Len(jobs) /\ jobs[j].pc = "scheduled"
  /\ (learningTabs = << >>) => out = <<"ok", "-">>
  /\ jobs' = RemoveAt(jobs, j)
  /\ Commit([Hooks EXCEPT !.tabs = ReconcileTabs(learningTabs, jobs[j])],
            TRUE, out, manuallyUpdatedVisualizations, mounts, {},
            localStorage, JobStep("Reconcile", jobs[j]), << >>)
  /\ origin' = Stripped(origin, learningTabs, out)
  /\ UNCHANGED <<error, loading, upload, clock, pureVars>>

(***************************************************************************)
(* The application.                                                        *)
(***************************************************************************)
OkOnly == { <<"ok", "-">> }
ViewFiles == { f \in Files : f.size < CacheLimitMB } \cup { OversizedFile }
ViewResponses == { ResponseFull, ResponseMissing, ResponseTwice }

\* The content view and the regenerations: every storage write succeeds.
Init ==
  /\ InitApp({NoEntry, <<[parses |-> TRUE, value |-> LegacyTabs]>>}, OkOnly)
  /\ nzSrc = << >> /\ nzOut = << >>
  /\ fmtIn = NoFormat /\ fmtOut = << >>
  /\ realms = NoRealms

Next ==
  \/ \E f \in ViewFiles : SelectFile(f)
  \/ BeginLearning
  \/ \E resp \in ViewResponses : AnalysisSuccess(resp, <<"ok", "-">>)
  \/ AnalysisFail
  \/ \E tabId \in TabIds : TabClick(tabId)
  \/ GoToUpload
  \/ \E tabId \in TabIds : DeleteTab(tabId, <<"ok", "-">>)
  \/ ClearAllTabs
  \/ \E i \in 1..Len(html.frags) : RegenClickFile(i)
  \/ \E i \in 1..Len(html.frags) : RegenClickStored(i)
  \/ \E j \in 1..Len(jobs) : RegenRead(j)
  \/ \E j \in 1..Len(jobs), raw \in GeneratedRaw : RegenSuccess(j, raw)
  \/ \E j \in 1..Len(jobs) : RegenFail(j)
  \/ \E j \in 1..Len(jobs) : Reconcile(j, <<"ok", "-">>)

Spec == Init /\ [][Next]_vars

(***************************************************************************)
(* The application with a storage that may refuse a write, files on both   *)
(* sides of the cache limit, and the page closed and opened again.  To     *)
(* keep the state space small the user of this specification uploads       *)
(* documents with one artifact, does not switch between tabs, and          *)
(* regenerates only from the bytes stored on the tab.                      *)
(***************************************************************************)
StoreResponses == { ResponseSingle }

InitStore ==
  /\ InitApp(InitialStorages, WriteOutcomes)
  /\ nzSrc = << >> /\ nzOut = << >>
  /\ fmtIn = NoFormat /\ fmtOut = << >>
  /\ realms = NoRealms

NextStore ==
  \/ \E out \in WriteOutcomes : Reload(out)
  \/ \E f \in Files : SelectFile(f)
  \/ BeginLearning
  \/ \E resp \in StoreResponses, out \in Outcomes : AnalysisSuccess(resp, out)
  \/ GoToUpload
  \/ \E tabId \in TabIds, out \in Outcomes : DeleteTab(tabId, out)
  \/ ClearAllTabs
  \/ \E i \in 1..Len(html.frags) : RegenClickStored(i)
  \/ \E j \in 1..Len(jobs), raw \in GeneratedRaw : RegenSuccess(j, raw)
  \/ \E j \in 1..Len(jobs) : RegenFail(j)
  \/ \E j \in 1..Len(jobs), out \in Outcomes : Reconcile(j, out)

SpecStore == InitStore /\ [][NextStore]_vars

(***************************************************************************)
(* The sources of a regeneration: sessions restored with and without the   *)
(* bytes of their document, one new document, every storage write          *)
(* succeeding.                                                             *)
(***************************************************************************)
SourceStorages ==
  { <<[parses |-> TRUE, value |-> LegacyTabs]>>,
    <<[parses |-> TRUE, value |-> LegacyTabsNoData]>> }

InitSource ==
  /\ InitApp(SourceStorages, OkOnly)
  /\ nzSrc = << >> /\ nzOut = << >>
  /\ fmtIn = NoFormat /\ fmtOut = << >>
  /\ realms = NoRealms

NextSource ==
  \/ \E f \in ViewFiles : SelectFile(f)
  \/ BeginLearning
  \/ \E resp \in StoreResponses : AnalysisSuccess(resp, <<"ok", "-">>)
  \/ AnalysisFail
  \/ \E tabId \in TabIds : TabClick(tabId)
  \/ GoToUpload
  \/ \E i \in 1..Len(html.frags) : RegenClickFile(i)
  \/ \E i \in 1..Len(html.frags) : RegenClickStored(i)
  \/ \E id \in ArtIds : RegenNoSource(id)
  \/ \E j \in 1..Len(jobs) : RegenRead(j)
  \/ \E j \in 1..Len(jobs), raw \in GeneratedRaw : RegenSuccess(j, raw)
  \/ \E j \in 1..Len(jobs) : RegenFail(j)
  \/ \E j \in 1..Len(jobs) : Reconcile(j, <<"ok", "-">>)

SpecSource == InitSource /\ [][NextSource]_vars

(***************************************************************************)
(* Regenerations under the browser's scheduling: a callback handed to      *)
(* requestAnimationFrame (line 3002) is run.  Two restored sessions are    *)
(* regenerated from their stored bytes; they may be deleted, and a write   *)
(* of the reconciled list may be refused.                                  *)
(***************************************************************************)
\* The write of a reconciled list is taken or refused.
FrameOutcomes == { <<"ok", "-">>, <<"error", "-">> }

\* The callback of the j-th regeneration in flight is run.
FrameOf(j) == \E out \in FrameOutcomes : Reconcile(j, out)

AnimationFrame == \E j \in 1..Len(jobs) : FrameOf(j)

\* Two sessions as an earlier visit has written them.
RestoredTabs ==
  LegacyTabs \o
  << [id |-> 2, title |-> "new.pdf", content |-> <<MarkerA, MarkerB>>,
      visualizations |->
        << [id |-> "a", description |-> "Sales chart",
            code |-> renameComponentToApp(RawFunction), status |-> "ready"],
           [id |-> "b", description |-> "Quiz",
            code |-> renameComponentToApp(RawArrow), status |-> "error"] >>,
      fileData |-> "bytes-new"] >>

InitFair ==
  /\ InitApp({ <<[parses |-> TRUE, value |-> RestoredTabs]>> }, OkOnly)
  /\ nzSrc = << >> /\ nzOut = << >>
  /\ fmtIn = NoFormat /\ fmtOut = << >>
  /\ realms = NoRealms

NextFair ==
  \/ \E tabId \in TabIds : TabClick(tabId)
  \/ GoToUpload
  \/ \E tabId \in TabIds : DeleteTab(tabId, <<"ok", "-">>)
  \/ ClearAllTabs
  \/ \E i \in 1..Len(html.frags) : RegenClickStored(i)
  \/ \E j \in 1..Len(jobs), raw \in GeneratedRaw : RegenSuccess(j, raw)
  \/ \E j \in 1..Len(jobs) : RegenFail(j)
  \/ AnimationFrame

\* Every callback is run: a regeneration keeps its place among those in
\* flight or moves towards the first place, so fairness by place is fairness
\* for each of them.
FairSpec ==
  InitFair /\ [][NextFair]_vars /\ \A j \in 1..MaxJobs : WF_vars(FrameOf(j))

(***************************************************************************)
(* The same scheduling, for a session whose prose has a marker without     *)
(* artifact: the fragment of marker a offers 'Generate'.                   *)
(***************************************************************************)
\* Two sessions as an earlier visit has written them; the analysis of the
\* second has answered with no block for marker a.
MissingTabs ==
  LegacyTabs \o
  << [id |-> 2, title |-> "new.pdf", content |-> <<MarkerA, MarkerB>>,
      visualizations |->
        << [id |-> "b", description |-> "Quiz",
            code |-> renameComponentToApp(RawArrow), status |-> "ready"] >>,
      fileData |-> "bytes-new"] >>

InitGenerate ==
  /\ InitApp({ <<[parses |-> TRUE, value |-> MissingTabs]>> }, OkOnly)
  /\ nzSrc = << >> /\ nzOut = << >>
  /\ fmtIn = NoFormat /\ fmtOut = << >>
  /\ realms = NoRealms

FairGenerate ==
  InitGenerate /\ [][NextFair]_vars /\ \A j \in 1..MaxJobs : WF_vars(FrameOf(j))

(***************************************************************************)
(* Regenerations side by side: up to MaxConcurrent are in flight at once,  *)
(* in two restored sessions that both hold an artifact a.  The user        *)
(* switches between the sessions, selects a file, and deletes sessions.    *)
(***************************************************************************)
ConcurrentFiles == { f \in Files : f.size < CacheLimitMB }

InitConcurrent ==
  /\ InitApp({ <<[parses |-> TRUE, value |-> RestoredTabs]>> }, OkOnly)
  /\ nzSrc = << >> /\ nzOut = << >>
  /\ fmtIn = NoFormat /\ fmtOut = << >>
  /\ realms = NoRealms

NextConcurrent ==
  \/ \E f \in ConcurrentFiles : SelectFile(f)
  \/ \E tabId \in TabIds : TabClick(tabId)
  \/ GoToUpload
  \/ \E tabId \in TabIds : DeleteTab(tabId, <<"ok", "-">>)
  \/ ClearAllTabs
  \/ \E i \in 1..Len(html.frags) : RegenClickFileWithin(i, MaxConcurrent)
  \/ \E i \in 1..Len(html.frags) : RegenClickStoredWithin(i, MaxConcurrent)
  \/ \E j \in 1..Len(jobs) : RegenRead(j)
  \/ \E j \in 1..Len(jobs), raw \in GeneratedRaw : RegenSuccess(j, raw)
  \/ \E j \in 1..Len(jobs) : RegenFail(j)
  \/ \E j \in 1..Len(jobs) : Reconcile(j, <<"ok", "-">>)

SpecConcurrent == InitConcurrent /\ [][NextConcurrent]_vars

(***************************************************************************)
(* The normalizer applied repeatedly to one input.                         *)
(***************************************************************************)
\* The application before anything has happened, for the checks of the pure
\* functions.
IdleApp ==
  /\ learningTabs = << >> /\ activeTab = NoTab /\ view = "upload"
  /\ file = NoFile /\ cachedFile = NoFile /\ error = "" /\ loading = FALSE
  /\ regeneratingVisualizations = NoRegen /\ manuallyUpdatedVisualizations = {}
  /\ localStorage = NoEntry /\ html = [shown |-> FALSE, frags |-> << >>]
  /\ mounts = NoMounts /\ upload = NoFile /\ jobs = << >> /\ clock = 0
  /\ last = Observe(Step("Load")) /\ origin = NoOrigin /\ notices = 0

InitNormalizer ==
  /\ nzSrc \in NormalizerInputs
  /\ nzOut = << >>
  /\ fmtIn = NoFormat /\ fmtOut = << >>
  /\ realms = NoRealms
  /\ IdleApp

Normalize ==
  /\ Len(nzOut) < 2
  /\ nzOut' = Append(nzOut, renameComponentToApp(IF nzOut = << >> THEN nzSrc
                                                  ELSE nzOut[Len(nzOut)]))
  /\ UNCHANGED <<nzSrc, appVars, fmtVars, rnVars>>

NextNormalizer == Normalize

SpecNormalizer == InitNormalizer /\ [][NextNormalizer]_vars

(***************************************************************************)
(* formatResponse applied to one prose and one artifact list.              *)
(***************************************************************************)
InitProtocol ==
  /\ fmtIn \in [text : ProtocolTexts, visualizations : ProtocolLists,
                regen : BOOLEAN, available : BOOLEAN]
  /\ fmtOut = << >>
  /\ nzSrc = << >> /\ nzOut = << >>
  /\ realms = NoRealms
  /\ IdleApp

\* regeneratingVisualizations with every marker id in progress, or empty
FormatRegen == [id \in IF fmtIn.regen THEN {"a", "b", "x_y_z", "note"} ELSE {} |-> TRUE]

Format ==
  /\ fmtOut = << >>
  /\ fmtOut' = <<formatResponse(fmtIn.text, fmtIn.visualizations, FormatRegen,
                                fmtIn.available)>>
  /\ UNCHANGED <<fmtIn, nzVars, appVars, rnVars>>

NextProtocol == Format

SpecProtocol == InitProtocol /\ [][NextProtocol]_vars

(***************************************************************************)
(* Rendering Pipeline: the body of the render effect, lines 2666-2937, and *)
(* renderVisualizationInContainer, lines 3028-3325, which runs the same    *)
(* steps.  Two containers of one document are rendered, each with its      *)
(* artifact's code and with the step, if any, that fails for it.           *)
(***************************************************************************)
Containers == {"a", "b"}

\* What can go wrong, by step: the frame cannot be created; the frame has no
\* document when it has loaded; a library script does not load; the code
\* does not parse; the code throws when it is evaluated; the component throws
\* when React renders it.
Faults == {"none", "create", "document", "babel", "react", "syntax", "eval", "render"}

RawBareArrow == <<"const", "Foo", "=", "props", "=>">>
PipelineCodes == { RawFunction, RawClass, RawBareArrow }

\* Lines 2800-2810: typeof App === 'function' in the scope of the script.
EntryFound(code) ==
  \E i \in 2..Len(code) : code[i] = "App" /\ code[i - 1] \in {"function", "const", "class"}

InitPipeline ==
  /\ realms \in [Containers -> [pc : {"start"}, fault : Faults, code : PipelineCodes,
                                content : {"previous"}]]
  /\ nzSrc = << >> /\ nzOut = << >>
  /\ fmtIn = NoFormat /\ fmtOut = << >>
  /\ IdleApp

Frame(id, pc, content) ==
  /\ realms' = [realms EXCEPT ![id].pc = pc, ![id].content = content]
  /\ UNCHANGED <<appVars, nzVars, fmtVars>>

\* Lines 2666-2683 and 2923-2936: the container is cleared and the iframe is
\* created and appended inside a try whose catch writes the panel 'Error
\* Setting Up Visualization' into the container.
CreateRealm(id) ==
  /\ realms[id].pc = "start"
  /\ IF realms[id].fault = "create"
     THEN Frame(id, "done", "setup-error-panel")
     ELSE Frame(id, "loading", "blank-frame")

\* Lines 2685-2691 and 2916-2920: iframe.onload writes the document when the
\* frame has one; there is no else branch.
FrameLoad(id) ==
  /\ realms[id].pc = "loading"
  /\ IF realms[id].fault = "document"
     THEN Frame(id, "done", realms[id].content)
     ELSE Frame(id, "libraries", realms[id].content)

\* Lines 2700-2737: the scripts of the head.  The script of type text/babel
\* (line 2787) is run by Babel: without Babel it never runs.
LoadLibraries(id) ==
  /\ realms[id].pc = "libraries"
  /\ IF realms[id].fault = "babel"
     THEN Frame(id, "done", realms[id].content)
     ELSE Frame(id, "transpile", realms[id].content)

\* Lines 2787-2794: the artifact's code is part of the text of the script
\* that holds the try and its catch (lines 2792, 2905-2914); Babel transforms
\* the script as a whole, and a text that does not parse is not run at all.
Transpile(id) ==
  /\ realms[id].pc = "transpile"
  /\ IF realms[id].fault = "syntax"
     THEN Frame(id, "done", realms[id].content)
     ELSE Frame(id, "evaluate", realms[id].content)

\* Lines 2792-2797 and 2905-2914: the code and createRoot run inside the try;
\* what they throw (a ReferenceError when React has not loaded) is shown by
\* the catch as the panel 'Error Rendering Visualization'.
Evaluate(id) ==
  /\ realms[id].pc = "evaluate"
  /\ IF realms[id].fault \in {"eval", "react"}
     THEN Frame(id, "done", "error-panel")
     ELSE Frame(id, "discover", realms[id].content)

\* Lines 2799-2835 and 2877-2903: safeComponentSearch on the code as
\* renameComponentToApp returns it (line 2693); without a component a
\* fallback chart and a note are shown.
Discover(id) ==
  /\ realms[id].pc = "discover"
  /\ IF EntryFound(renameComponentToApp(realms[id].code))
     THEN Frame(id, "render", realms[id].content)
     ELSE Frame(id, "done", "fallback-chart-and-note")

\* Lines 2837-2876: root.render of a root made by createRoot returns before
\* the component is rendered, so the catch blocks around it (lines 2856-2875)
\* see nothing of what the component throws; React 18 then removes the tree
\* of a root without an error boundary, and #root is empty.
Render(id) ==
  /\ realms[id].pc = "render"
  /\ IF realms[id].fault = "render"
     THEN Frame(id, "done", "blank-frame")
     ELSE Frame(id, "done", "component")

NextPipeline ==
  \/ \E id \in Containers : CreateRealm(id)
  \/ \E id \in Containers : FrameLoad(id)
  \/ \E id \in Containers : LoadLibraries(id)
  \/ \E id \in Containers : Transpile(id)
  \/ \E id \in Containers : Evaluate(id)
  \/ \E id \in Containers : Discover(id)
  \/ \E id \in Containers : Render(id)

SpecPipeline == InitPipeline /\ [][NextPipeline]_vars

(***************************************************************************)
(* Properties.                                                             *)
(***************************************************************************)
RegenSteps == {"RegenClick", "RegenRead", "RegenSuccess", "Reconcile"}

\* A container that holds a rendered artifact.
Rendered(mts, id) == id \in DOMAIN mts /\ mts[id] # Empty

\* C1: while artifact X of the active tab is regenerated, from the request
\* to the reconciliation, no step of the regeneration clears, recreates or
\* re-renders the container of a sibling Y that was rendered, as long as the
\* tab stays active.
C1_SiblingsUntouched ==
  [][ (last'.act.name \in RegenSteps /\ last'.act.tab = activeTab /\ activeTab' = activeTab)
        => \A y \in ArtIds \ {last'.act.id} :
             Rendered(mounts, y) => y \notin last'.touched ]_vars

\* C2: the steps of a successful regeneration of X in tab S change, in the
\* tab list, nothing but the artifact with id X of the tab with id S, and
\* keep the number and order of tabs and of artifacts.
SameBut(tab, tab2, S, X, inFlight) ==
  /\ DOMAIN tab2 = DOMAIN tab
  /\ \A k \in DOMAIN tab \ {"visualizations"} : tab2[k] = tab[k]
  /\ Len(tab2.visualizations) = Len(tab.visualizations)
  /\ \A k \in 1..Len(tab.visualizations) :
       \/ tab2.visualizations[k] = tab.visualizations[k]
       \/ /\ tab.id = S
          /\ tab.visualizations[k].id = X
          /\ \E j \in 1..Len(inFlight) :
               /\ inFlight[j].tab = S /\ inFlight[j].id = X
               /\ tab2.visualizations[k] =
                    [id |-> X, description |-> inFlight[j].description,
                     code |-> inFlight[j].code, status |-> "ready"]

C2_RegenFrame ==
  [][ last'.act.name \in RegenSteps
        => /\ Len(learningTabs') = Len(learningTabs)
           /\ \A i \in 1..Len(learningTabs) :
                SameBut(learningTabs[i], learningTabs'[i],
                        last'.act.tab, last'.act.id, jobs) ]_vars

\* C2 witness: a reconciliation has replaced the code of X in one tab while
\* another tab holds an artifact with the same id and its original code.
C2_Witness ==
  /\ last.act.name = "Reconcile"
  /\ \E i, k \in 1..Len(learningTabs) :
       /\ i # k
       /\ learningTabs[i].id = last.act.tab
       /\ \E v \in 1..Len(learningTabs[i].visualizations) :
            /\ learningTabs[i].visualizations[v].id = last.act.id
            /\ learningTabs[i].visualizations[v].code = renameComponentToApp(RawClass)
       /\ \E v \in 1..Len(learningTabs[k].visualizations) :
            /\ learningTabs[k].visualizations[v].id = last.act.id
            /\ learningTabs[k].visualizations[v].code # renameComponentToApp(RawClass)

\* C3: when the generation call fails, the failing step leaves the tab list
\* and the persisted entry as they were, modifies no container, shows the
\* error dialog and resets the flag of X; the steps of the request before
\* it leave the tab list and the persisted entry alone too.
C3_FailureLeavesAll ==
  [][ /\ last'.act.name \in {"RegenClick", "RegenRead", "RegenFail"}
        => learningTabs' = learningTabs /\ localStorage' = localStorage
      /\ last'.act.name = "RegenFail"
        => /\ last'.touched = {}
           /\ mounts' = mounts
           /\ last'.alerts = <<"regeneration-error">>
           /\ ~regeneratingVisualizations'[last'.act.id] ]_vars

\* C4: once X is in the manually updated set and while the active tab does
\* not change, a run of the render pass finds X still in the set and does
\* not render X's container.
C4_ManualSetSurvives ==
  [][ (activeTab' = activeTab /\ last'.passRan)
        => \A x \in manuallyUpdatedVisualizations :
             x \in manuallyUpdatedVisualizations' /\ x \notin last'.rendered ]_vars

\* The tabs of the persisted entry, when it parses.
Persisted == IF localStorage # NoEntry /\ localStorage[1].parses
             THEN localStorage[1].value ELSE << >>

\* C5: the list is empty only with no persisted entry; after a mutation whose
\* write succeeded the entry is the serialization of the list; and a step
\* that is no mutation changes neither the list nor the entry.
C5_WriteThrough ==
  /\ [](/\ learningTabs = << >> => localStorage = NoEntry
        /\ (last.saved /\ learningTabs # << >> /\ last.writes[1].result = "ok")
             => localStorage = <<JSONstringify(learningTabs)>>)
  /\ [][ ~last'.saved => learningTabs' = learningTabs /\ localStorage' = localStorage ]_vars

\* C5 witness: a tab has been deleted, another remains, and the entry is the
\* serialization of what remains.
C5_Witness ==
  /\ last.act.name = "DeleteTab"
  /\ Len(learningTabs) = 1
  /\ last.writes = << [text |-> JSONstringify(learningTabs), result |-> "ok"] >>
  /\ localStorage = <<JSONstringify(learningTabs)>>

\* C6: a save makes a second write exactly when the first met the quota; the
\* second writes the same tabs with fileData absent and every other field
\* as serialized; when it succeeds the entry holds no bytes; when it fails
\* nothing more is written and the save returns false.
C6_OneStrippedRetry ==
  LET w == last.writes
  IN /\ Len(w) <= 2
     /\ Len(w) >= 1 => w[1].text = JSONstringify(learningTabs)
     /\ Len(w) = 2 <=> (Len(w) >= 1 /\ w[1].result = "quota")
     /\ Len(w) = 2 =>
          /\ Len(w[2].text.value) = Len(learningTabs)
          /\ \A i \in 1..Len(learningTabs) :
               LET p == w[2].text.value[i]
                   t == w[1].text.value[i]
               IN /\ DOMAIN p = DOMAIN t \ {"fileData"}
                  /\ \A k \in DOMAIN p : p[k] = t[k]
          /\ w[2].result = "ok" =>
               /\ localStorage = <<w[2].text>>
               /\ \A i \in 1..Len(Persisted) : "fileData" \notin DOMAIN Persisted[i]
          /\ w[2].result = "fail" => ~last.returned

\* C6 witness: after an analysis, the first write of a tab that holds bytes
\* met the quota and the retry succeeded.
C6_Witness ==
  /\ last.act.name = "AnalysisSuccess"
  /\ Len(last.writes) = 2
  /\ last.writes[2].result = "ok"
  /\ \E i \in 1..Len(learningTabs) : Truthy(Get(learningTabs[i], "fileData"))
  /\ \E i \in 1..Len(last.writes[1].text.value) :
       "fileData" \in DOMAIN last.writes[1].text.value[i]

\* C7: the storage-limit notice is shown at most once between two loads of
\* the page.
C7_OneNotice == notices <= 1

\* C8: the list restored by a load has the tabs of the entry it read, in
\* order, with the same id, title, content and artifacts, each artifact with
\* its persisted status or 'ready' when the entry has none; and an entry
\* just written has the tabs of the list in that sense.
RestoredFrom(P, L) ==
  /\ Len(L) = Len(P)
  /\ \A i \in 1..Len(P) :
       /\ L[i].id = P[i].id /\ L[i].title = P[i].title /\ L[i].content = P[i].content
       /\ Len(L[i].visualizations) = Len(P[i].visualizations)
       /\ \A k \in 1..Len(P[i].visualizations) :
            LET pv == P[i].visualizations[k]
                lv == L[i].visualizations[k]
            IN /\ lv.id = pv.id /\ lv.description = pv.description /\ lv.code = pv.code
               /\ Get(lv, "status") = IF "status" \in DOMAIN pv THEN pv.status ELSE "ready"

C8_RoundTrip ==
  /\ (/\ last.act.name = "Load" /\ last.from # NoEntry
      /\ last.from[1].parses /\ Restorable(last.from[1].value))
       => RestoredFrom(last.from[1].value, learningTabs)
  /\ (last.saved /\ Len(last.writes) >= 1 /\ last.writes[Len(last.writes)].result = "ok")
       => RestoredFrom(Persisted, learningTabs)

\* C8 witness: a load has restored two tabs from an entry written by a save
\* of this page.
C8_Witness ==
  /\ last.act.name = "Load"
  /\ last.from # NoEntry /\ last.from[1].parses
  /\ Len(learningTabs) = 2
  /\ \E i \in 1..2 : learningTabs[i].id \in DOMAIN origin

\* C9: a tab made from a file at or above the cache limit holds no bytes, in
\* memory or in the persisted entry; a tab made from a smaller file holds
\* the bytes of its file in both, unless a retry has written it stripped.
C9_CacheLimit ==
  \A id \in DOMAIN origin :
    \A copies \in {learningTabs, Persisted} :
      \A i \in 1..Len(copies) :
        copies[i].id = id =>
          /\ origin[id].size >= CacheLimitMB => ~Truthy(Get(copies[i], "fileData"))
          /\ (origin[id].size < CacheLimitMB /\ ~origin[id].stripped)
               => Get(copies[i], "fileData") = origin[id].data

\* C9 witness: after a load, a tab made from the file of exactly the limit is
\* restored without bytes next to a tab of a smaller file restored with them.
C9_Witness ==
  /\ last.act.name = "Load"
  /\ \E i, k \in 1..Len(learningTabs) :
       /\ learningTabs[i].id \in DOMAIN origin /\ learningTabs[k].id \in DOMAIN origin
       /\ origin[learningTabs[i].id].size = CacheLimitMB
       /\ ~Truthy(Get(learningTabs[i], "fileData"))
       /\ origin[learningTabs[k].id].size < CacheLimitMB
       /\ Get(learningTabs[k], "fileData") = origin[learningTabs[k].id].data

\* C10: the normalizer applied to its own output returns that output.
C10_Idempotent == Len(nzOut) = 2 => nzOut[2] = nzOut[1]

\* C10 witness: the first application renamed a declaration and the second
\* has been applied.
C10_Witness == Len(nzOut) = 2 /\ nzOut[1] # nzSrc

\* A declaration of the name n as a component starts at position i of the
\* text: a function declaration, a const bound to a function (an arrow
\* function with or without parentheses, or a function expression), or a
\* class extending React.Component.
DeclaresAt(code, i, n) ==
  /\ i + 2 <= Len(code)
  /\ code[i + 1] = n
  /\ \/ code[i] = "function" /\ code[i + 2] = "("
     \/ /\ code[i] = "const" /\ code[i + 2] = "="
        /\ i + 3 <= Len(code)
        /\ \/ code[i + 3] \in {"(", "function", "=>"}
           \/ i + 4 <= Len(code) /\ code[i + 4] = "=>"
     \/ /\ code[i] = "class" /\ code[i + 2] = "extends"
        /\ i + 3 <= Len(code) /\ code[i + 3] = "React.Component"

DeclarationsOf(code, names) ==
  { i \in 1..Len(code) : \E n \in names : DeclaresAt(code, i, n) }

\* C11: a text that already declares App, in any of these forms, is returned
\* as it is, whatever else it declares.
C11_ExistingAppKept ==
  (Len(nzOut) >= 1 /\ DeclarationsOf(nzSrc, {"App"}) # {}) => nzOut[1] = nzSrc

\* C12: the result for a text that declares a capitalized function, arrow
\* const or component class declares App exactly once.
C12_ExactlyOneApp ==
  (Len(nzOut) >= 1 /\ DeclarationsOf(nzSrc, CapNames) # {})
    => Cardinality(DeclarationsOf(nzOut[1], {"App"})) = 1

\* The positions of a sequence that satisfy a test, in order.
Positions(seq, Test(_)) == SelectSeq([i \in 1..Len(seq) |-> i], LAMBDA i : Test(seq[i]))

HasArtifact(marker) == Find(fmtIn.visualizations, marker.id) # << >>
HasMarker(v) == \E k \in 1..Len(fmtIn.text) : fmtIn.text[k].id = v.id

\* C13: the markers without artifact and the 'Generate' fragments of the
\* result correspond one to one, in order: each such marker has, at its
\* place, an error-state fragment for its id whose action reads 'Generate'
\* (or 'Regenerating...' while in progress) and is disabled, with the
\* notice, when no source bytes are available.
C13_GenerateFragments ==
  fmtOut # << >> =>
    LET missing == Positions(fmtIn.text, LAMBDA m : ~HasArtifact(m))
        generate == Positions(fmtOut[1], LAMBDA e : e.kind = "generate")
    IN /\ Len(generate) = Len(missing)
       /\ \A j \in 1..Len(missing) :
            LET m == fmtIn.text[missing[j]]
                e == fmtOut[1][generate[j]]
            IN /\ e.id = m.id /\ e.description = m.description
               /\ e.button.label = IF fmtIn.regen THEN "Regenerating..." ELSE "Generate"
               /\ ~fmtIn.available => e.button.disabled /\ e.button.warning

\* C14: for every ready artifact whose id occurs in a marker, the result has
\* exactly one element whose id is vis-container-<artifact id>.
C14_OneMountPoint ==
  fmtOut # << >> =>
    \A i \in 1..Len(fmtIn.visualizations) :
      LET v == fmtIn.visualizations[i]
      IN (v.status = "ready" /\ HasMarker(v))
           => Len(Positions(fmtOut[1],
                            LAMBDA e : e.kind = "mount" /\ e.container = v.id)) = 1

\* C15: every marker without artifact yields a fragment for its id, and every
\* artifact without marker yields a fragment for its id too.
C15_NothingDropped ==
  fmtOut # << >> =>
    /\ \A k \in 1..Len(fmtIn.text) :
         ~HasArtifact(fmtIn.text[k])
           => \E i \in 1..Len(fmtOut[1]) :
                fmtOut[1][i].kind = "generate" /\ fmtOut[1][i].id = fmtIn.text[k].id
    /\ \A k \in 1..Len(fmtIn.visualizations) :
         ~HasMarker(fmtIn.visualizations[k])
           => \E i \in 1..Len(fmtOut[1]) :
                /\ fmtOut[1][i].kind \notin {"text", "stripped"}
                /\ fmtOut[1][i].id = fmtIn.visualizations[k].id

\* C16: in every state the artifact ids within each session are pairwise
\* distinct.
C16_DistinctIds ==
  \A t \in 1..Len(learningTabs) :
    \A i, j \in 1..Len(learningTabs[t].visualizations) :
      learningTabs[t].visualizations[i].id = learningTabs[t].visualizations[j].id
        => i = j

SourceOrderStep ==
  LET tab == Find(learningTabs, activeTab)
  IN /\ Len(jobs') > Len(jobs) =>
          /\ tab # << >>
          /\ file # NoFile \/ cachedFile # NoFile \/ Truthy(Get(tab[1], "fileData"))
          /\ jobs'[Len(jobs')].data =
               IF file # NoFile THEN file.data
               ELSE IF cachedFile # NoFile THEN cachedFile.data
               ELSE tab[1].fileData
     /\ last'.act.name = "RegenNoSource" =>
          /\ last'.alerts = <<"no-document-data">>
          /\ jobs' = jobs
          /\ regeneratingVisualizations' = regeneratingVisualizations
          /\ learningTabs' = learningTabs
          /\ mounts' = mounts /\ html' = html

\* C17: a regeneration that starts takes its bytes from the file in memory,
\* else from the cached file, else from the bytes stored on the tab, and
\* starts only when one of them is there; a regeneration asked for while none
\* is there shows a message and starts no call, sets no flag, and leaves the
\* list and the mount points as they are.
C17_SourceOrder == [][SourceOrderStep]_vars

\* A regeneration was asked for on a restored session without bytes, and the
\* message was shown.
C17_Witness ==
  /\ last.act.name = "RegenNoSource" /\ last.alerts = <<"no-document-data">>
  /\ file = NoFile /\ cachedFile = NoFile
  /\ ~Truthy(Get(Find(learningTabs, activeTab)[1], "fileData"))

\* C18: a container whose rendering has ended without showing the component
\* shows an error panel (or the fallback chart with its note): it is never
\* left with a blank frame.
C18_FailureVisible ==
  \A id \in DOMAIN realms :
    realms[id].pc = "done"
      => realms[id].content \in {"component", "setup-error-panel", "error-panel",
                                 "fallback-chart-and-note"}

\* The artifact X of session S, in a list of tabs.
ArtifactOf(tabs, S, X) ==
  IF Find(tabs, S) = << >> THEN << >> ELSE Find(Find(tabs, S)[1].visualizations, X)

\* A list of tabs holds the code for X in S, with status 'ready'.
HoldsCode(tabs, S, X, code) ==
  /\ ArtifactOf(tabs, S, X) # << >>
  /\ ArtifactOf(tabs, S, X)[1].code = code
  /\ ArtifactOf(tabs, S, X)[1].status = "ready"

\* A regeneration has succeeded and its reconciliation has not run yet.
Scheduled(job) == job.pc = "scheduled"

\* A step in which the reconciliation of a succeeded regeneration of an
\* artifact X of S runs: afterwards S is deleted, or the list and, when the
\* save has succeeded, the persisted entry hold the generated code for X in S
\* with status 'ready'.
ReconcileStep ==
  \A j \in 1..Len(jobs) :
    (/\ Scheduled(jobs[j])
     /\ ~\E k \in 1..Len(jobs') : jobs'[k] = jobs[j]
     /\ ArtifactOf(learningTabs, jobs[j].tab, jobs[j].id) # << >>)
      => \/ Find(learningTabs', jobs[j].tab) = << >>
         \/ /\ HoldsCode(learningTabs', jobs[j].tab, jobs[j].id, jobs[j].code)
            /\ last'.returned
                 => HoldsCode(Persisted', jobs[j].tab, jobs[j].id, jobs[j].code)

\* The reconciliation of a succeeded regeneration of X in S is scheduled.
ScheduledFor(S, X) ==
  \E j \in 1..Len(jobs) : Scheduled(jobs[j]) /\ jobs[j].tab = S /\ jobs[j].id = X

\* C19: after a regeneration of X in S has succeeded a reconciliation for X
\* in S eventually runs, and when one has run either S is deleted or the
\* list, and the persisted entry when the storage takes the write, hold for
\* X in S the generated code with status 'ready'.
C19_EventuallyReconciled ==
  /\ [][ReconcileStep]_vars
  /\ \A S \in 1..Len(RestoredTabs), X \in ArtIds :
       ScheduledFor(S, X) ~> (last.act = [name |-> "Reconcile", tab |-> S, id |-> X])

\* A reconciliation has replaced the code of an artifact in the list and in
\* the persisted entry.
C19_Witness ==
  /\ last.act.name = "Reconcile"
  /\ HoldsCode(learningTabs, last.act.tab, last.act.id, renameComponentToApp(RawClass))
  /\ HoldsCode(Persisted, last.act.tab, last.act.id, renameComponentToApp(RawClass))
  /\ mounts[last.act.id] = renameComponentToApp(RawClass)

\* C20: after a load from an entry that holds a non-empty list, the list has
\* the tabs of the entry, every artifact has a status of loading, ready or
\* error, an artifact stored without status is ready, the last tab is active
\* and the content view is shown; after a load from an entry that does not
\* parse or cannot be restored the list is empty, no tab is active and the
\* entry is gone.
C20_Restoration ==
  (last.act.name = "Load" /\ last.from # NoEntry) =>
    LET entry == last.from[1]
    IN IF entry.parses /\ Restorable(entry.value)
       THEN Len(entry.value) > 0 =>
              /\ Len(learningTabs) = Len(entry.value)
              /\ \A t \in 1..Len(learningTabs) :
                   /\ learningTabs[t].id = entry.value[t].id
                   /\ \A i \in 1..Len(learningTabs[t].visualizations) :
                        LET v == learningTabs[t].visualizations[i]
                            stored == entry.value[t].visualizations[i]
                        IN /\ v.status \in {"loading", "ready", "error"}
                           /\ "status" \notin DOMAIN stored => v.status = "ready"
              /\ activeTab = learningTabs[Len(learningTabs)].id
              /\ view = "content"
       ELSE /\ learningTabs = << >>
            /\ activeTab = NoTab
            /\ localStorage = NoEntry

\* The page was opened on an entry of two tabs and the second is active.
C20_Witness ==
  /\ last.act.name = "Load" /\ last.from # NoEntry
  /\ last.from[1].parses /\ Len(last.from[1].value) = 2
  /\ Len(learningTabs) = 2 /\ activeTab = learningTabs[2].id /\ view = "content"

\* The declaration keywords whose capitalized name the normalizer has changed:
\* a renaming keeps the number of tokens, so the positions of the input and
\* of the output correspond.
RenamedCategories(src, out) ==
  { src[k - 1] : k \in { i \in 2..Len(src) : i <= Len(out) /\ out[i] # src[i] } }

\* The first category, in the order function, const, class, of which the text
\* has a capitalized declaration that the normalizer's patterns match.
FirstCategory(code) ==
  IF \E i \in 1..Len(code) :
       i + 2 <= Len(code) /\ code[i] = "function" /\ code[i + 1] \in CapNames
         /\ code[i + 2] = "("
  THEN {"function"}
  ELSE IF \E i \in 1..Len(code) : ArrowLen(code, i, CapNames) # 0 THEN {"const"}
  ELSE IF \E i \in 1..Len(code) : ClassAt(code, i, CapNames) THEN {"class"}
  ELSE {}

\* C21: for a text in which no declaration uses the entry name, the
\* declarations renamed are those of one category only, the first that
\* matches in the order function declarations, arrow-function consts,
\* component classes.
C21_OneCategory ==
  (Len(nzOut) >= 1 /\ DeclarationsOf(nzSrc, AppNames) = {})
    => RenamedCategories(nzSrc, nzOut[1]) = FirstCategory(nzSrc)

\* The regenerations in flight for X in S whose reconciliation is scheduled.
ScheduledJobs(S, X) ==
  { j \in 1..Len(jobs) : Scheduled(jobs[j]) /\ jobs[j].tab = S /\ jobs[j].id = X }

\* A reconciliation of X in S writes the generated code on every artifact X
\* of S and leaves every other artifact of the list as it finds it, the
\* result of an earlier reconciliation included.
SideBySideStep ==
  last'.act.name = "Reconcile" =>
    /\ Len(learningTabs') = Len(learningTabs)
    /\ \A t \in 1..Len(learningTabs) :
         /\ learningTabs'[t].id = learningTabs[t].id
         /\ Len(learningTabs'[t].visualizations) = Len(learningTabs[t].visualizations)
         /\ \A k \in 1..Len(learningTabs[t].visualizations) :
              LET v == learningTabs[t].visualizations[k]
                  w == learningTabs'[t].visualizations[k]
              IN IF learningTabs[t].id = last'.act.tab /\ v.id = last'.act.id
                 THEN /\ w.status = "ready"
                      /\ \E j \in ScheduledJobs(last'.act.tab, last'.act.id) :
                           w.code = jobs[j].code
                 ELSE w = v

\* C22: regenerations of different artifacts of one session are in flight
\* together, and in whatever order they complete and are reconciled, each
\* reconciliation writes its own artifact and keeps what the other has
\* written: the list ends up holding both results.
C22_SideBySide == [][SideBySideStep]_vars

\* The reconciliation of X in S has run and written its code while a
\* regeneration of another artifact Y of S, requested before, is still in
\* flight with its result; Y's code in the list is yet the old one.
C22_Witness ==
  /\ last.act.name = "Reconcile"
  /\ HoldsCode(learningTabs, last.act.tab, last.act.id, renameComponentToApp(RawClass))
  /\ \E j \in 1..Len(jobs) :
       /\ Scheduled(jobs[j]) /\ jobs[j].tab = last.act.tab /\ jobs[j].id # last.act.id
       /\ ArtifactOf(learningTabs, jobs[j].tab, jobs[j].id) # << >>
       /\ ArtifactOf(learningTabs, jobs[j].tab, jobs[j].id)[1].code # jobs[j].code

\* The steps of an upload whose analysis fails: the start of the upload and
\* the failure leave the list, the persisted entry, the active tab and the
\* view as they find them; the failure sets the error message and resets the
\* loading flag.
FailedUploadStep ==
  /\ last'.act.name \in {"BeginLearning", "AnalysisFail"} =>
       /\ learningTabs' = learningTabs
       /\ localStorage' = localStorage
       /\ activeTab' = activeTab
       /\ view' = view
  /\ last'.act.name = "AnalysisFail" => error' # "" /\ ~loading'

\* C23: when the analysis of an uploaded document fails, the list, the
\* persisted entry, the active tab and the view are what they were before
\* the upload, an error message is set and the loading flag is false again.
C23_FailedUpload == [][FailedUploadStep]_vars

\* An analysis has failed while a session exists and is persisted.
C23_Witness ==
  /\ last.act.name = "AnalysisFail"
  /\ error # "" /\ ~loading
  /\ Len(learningTabs) >= 1 /\ localStorage = <<JSONstringify(learningTabs)>>

\* The bytes of the document a session was created from, when they are
\* known: those of the file of its upload, or, for a session restored from
\* the persisted entry, the bytes stored on it at its creation (lines
\* 2484-2497).
DocumentBytes(S) ==
  IF S \in DOMAIN origin THEN <<origin[S].data>>
  ELSE IF Find(learningTabs, S) # << >> /\ Truthy(Get(Find(learningTabs, S)[1], "fileData"))
       THEN <<Find(learningTabs, S)[1].fileData>>
  ELSE << >>

OwnDocumentStep ==
  Len(jobs') > Len(jobs) =>
    LET job == jobs'[Len(jobs')]
    IN DocumentBytes(job.tab) # << >> => job.data = DocumentBytes(job.tab)[1]

\* C24: the bytes a regeneration in session S sends to the generation call
\* are the bytes of the document S was created from, also after another
\* document has been selected or uploaded since.
C24_OwnDocument == [][OwnDocumentStep]_vars

\* A step in which a regeneration requested in another session than the
\* active one completes or is reconciled: a mount point of the document that
\* shows an artifact afterwards shows what it showed before or the active
\* session's own artifact, and every session but the regeneration's own is
\* left as it is.
CrossSessionStep ==
  (last'.act.name \in {"RegenSuccess", "Reconcile"} /\ last'.act.tab # activeTab) =>
    /\ activeTab' = activeTab
    /\ \A X \in DOMAIN mounts' :
         Rendered(mounts', X) =>
           \/ X \in DOMAIN mounts /\ mounts'[X] = mounts[X]
           \/ HoldsCode(learningTabs', activeTab', X, mounts'[X])
    /\ Len(learningTabs') = Len(learningTabs)
    /\ \A t \in 1..Len(learningTabs) :
         learningTabs[t].id # last'.act.tab => learningTabs'[t] = learningTabs[t]

\* C25: a regeneration requested while session A was active and completing
\* while session B is active writes into no mount point of B and changes no
\* artifact of B, also when B has an artifact with the same id.
C25_OtherSessionUntouched == [][CrossSessionStep]_vars

\* Session S holds an artifact X with status 'ready'.
HoldsReady(S, X) ==
  /\ ArtifactOf(learningTabs, S, X) # << >>
  /\ ArtifactOf(learningTabs, S, X)[1].status = "ready"
  /\ ArtifactOf(learningTabs, S, X)[1].code # Empty

\* C26: after a regeneration for a marker X of session S has succeeded, also
\* one asked for by 'Generate' while S has no artifact X, S eventually holds
\* an artifact X with status 'ready' and code (or S is deleted).
C26_GenerateAdds ==
  \A S \in 1..Len(MissingTabs), X \in ArtIds :
    ScheduledFor(S, X) ~> (Find(learningTabs, S) = << >> \/ HoldsReady(S, X))

\* C27: every artifact of every session of the list has status 'ready',
\* whatever analyses, regenerations that succeed or fail, deletions, saves
\* and restorations have happened; the stores the page is first opened on
\* are empty or hold artifacts without status.
C27_AlwaysReady ==
  \A t \in 1..Len(learningTabs) :
    \A i \in 1..Len(learningTabs[t].visualizations) :
      Get(learningTabs[t].visualizations[i], "status") = "ready"

\* A session created by an analysis of this page has been regenerated, saved
\* and restored by a load, and its artifact is ready.
C27_Witness ==
  /\ last.act.name = "Load"
  /\ \E t \in 1..Len(learningTabs) :
       /\ learningTabs[t].id \in DOMAIN origin
       /\ \E i \in 1..Len(learningTabs[t].visualizations) :
            /\ learningTabs[t].visualizations[i].code = renameComponentToApp(RawClass)
            /\ learningTabs[t].visualizations[i].status = "ready"

\* The ids of the sessions of the persisted entry.
PersistedIds == { Persisted[i].id : i \in 1..Len(Persisted) }

UnescapeToken(tok) ==
  CASE tok = "&lt;" -> "<"
    [] tok = "&gt;" -> ">"
    [] tok = "=&gt;" -> "=>"
    [] tok = "/&gt;" -> "/>"
    [] tok = "&lt;p&gt;" -> "<p>"
    [] tok = "&lt;/p&gt;" -> "</p>"
    [] tok = "&#039;red&#039;" -> "'red'"
    [] OTHER -> tok

DisplayedText(panel) ==
  LET shown == SelectSeq(panel, LAMBDA tok :
                 tok \notin {"<span class=\"highlight-text\">", "</span>"})
  IN [i \in 1..Len(shown) |-> UnescapeToken(shown[i])]

\* C29: for every ready artifact that the result renders, the raw-source
\* panel shows the artifact's code in full: what line 2624 removes and what
\* the highlighting inserts leave the displayed code as it is, also when
\* the code holds text in double braces.
C29_PanelShowsCode ==
  fmtOut # << >> =>
    \A i \in 1..Len(fmtOut[1]) :
      fmtOut[1][i].kind = "mount" =>
        DisplayedText(fmtOut[1][i].panel)
          = Find(fmtIn.visualizations, fmtOut[1][i].id)[1].code

\* A generation call for the artifact id is in flight.
CallInFlight(id) == \E j \in 1..Len(jobs) : jobs[j].id = id /\ jobs[j].pc = "calling"

\* C30: the regeneration-in-progress flag of an id is true whenever a
\* generation call for the id is in flight, also when two regenerations of
\* the id were requested before the first has completed, and false when none
\* is.
C30_FlagTracksCalls ==
  \A id \in ArtIds : RegenOn(regeneratingVisualizations, id) <=> CallInFlight(id)
====
